---- MODULE Spec2Model ----
(***************************************************************************)
(* Order fulfillment agent (jaybea/O1AgenticPlanner).                      *)
(*                                                                         *)
(* Seven specifications over one set of variables:                        *)
(*   Spec         PolicyExecutor.process_scenario / execute_plan driven by *)
(*                a model service that may answer anything                 *)
(*   ScriptedSpec the same loop driven by a scripted model, whose          *)
(*                responses are fixed before the run starts                *)
(*   FnSpec       the business functions applied directly to a business    *)
(*                state                                                    *)
(*   RegSpec      FunctionRegistry.extract_function_metadata applied to a  *)
(*                callable's signature                                     *)
(*   PlanSpec     Plan.save / Plan.load on the plan directory              *)
(*   RunsSpec     several PolicyExecutor instances built from one          *)
(*                ContextConfig, each applying tool calls to its own state *)
(*   FmtSpec      utils.append_message / OutputManager.write applied to    *)
(*                events of every type                                     *)
(***************************************************************************)
EXTENDS Integers, Sequences, FiniteSets, TLC

VARIABLES
    pc,            \* position of process_scenario / execute_plan
    client,        \* self.client: the model service (free or scripted)
    context,       \* self.context: the business state
    plan,          \* the Plan being executed
    files,         \* run_results/plans: the plan records written
    messages,      \* execute_plan's transcript (local `messages`)
    message_list,  \* self.message_list: the logged events
    output,        \* OutputManager.file: the text written to the log
    returned,      \* the list execute_plan returned
    tool_calls,    \* response_message.tool_calls of the current turn
    idx,           \* position of the for loop in tool_calls
    requests,      \* execution-model requests issued in this run
    plan_requests, \* planning-model requests issued in this run
    failure,       \* the exception that propagated out of the run
    turn_context,  \* history: the business state when the turn's response arrived
    fn_call,       \* FnSpec: the call last applied
    fn_before,     \* FnSpec: the business state before that call
    fn_result,     \* FnSpec: what that call returned
    func,          \* RegSpec: the callable's signature and documentation
    metadata,      \* RegSpec: extract_function_metadata(func)
    saved,         \* PlanSpec history: the (filename, plan) pairs saved, in order
    loaded,        \* PlanSpec: the filename last loaded and what load returned
    heap,          \* RunsSpec: the mutable objects (configurations, contexts)
    executors,     \* RunsSpec: the PolicyExecutor instances built so far
    clock,         \* ClockSpec: datetime.now()
    generated,     \* ClockSpec history: the generate_plan calls and their plans
    functions,     \* ToolsSpec: the function mapping given to the registry
    tools,         \* ToolsSpec: generate_tools_list(functions)
    descriptions   \* ToolsSpec: generate_functions_description(functions)

vars == <<pc, client, context, plan, files, messages, message_list, output,
          returned, tool_calls, idx, requests, plan_requests, failure, turn_context,
          fn_call, fn_before, fn_result, func, metadata, saved, loaded,
          heap, executors, clock, generated, functions, tools, descriptions>>

loopVars == <<pc, client, plan, files, messages, message_list, output, returned,
              tool_calls, idx, requests, plan_requests, failure, turn_context>>
fnVars == <<fn_call, fn_before, fn_result>>
regVars == <<func, metadata>>
planVars == <<saved, loaded>>
runVars == <<heap, executors>>
clockVars == <<clock, generated>>
toolVars == <<functions, tools, descriptions>>

\* ------------------------------------------------------------------ bounds
MaxTurns == 2   \* execution requests per run
MaxCalls == 2   \* tool calls per response
MaxStock == 3   \* FnSpec: stock levels 0..MaxStock
MaxParams == 2  \* RegSpec: parameters per callable
MaxSaves == 2   \* PlanSpec: calls of Plan.save
MaxExecutors == 2  \* RunsSpec: PolicyExecutor instances
MaxWrites == 3  \* FmtSpec: events written to the log
MaxClock == 3   \* ClockSpec: clock readings 0..MaxClock
MaxPlans == 2   \* ClockSpec: calls of generate_plan
MaxRuns == 2        \* RepeatSpec: process_scenario calls on one executor
MaxCapacity == 3    \* OpsSpec: processing capacity 0..MaxCapacity at the start
MaxFunctions == 3   \* ToolsSpec: callables in a function mapping
MaxDispatches == 2  \* ProtoSpec: tool calls returned by the model per run

\* ------------------------------------------------------- business state
\* ContextConfig(): the default configuration of context.py
DefaultConfig ==
    [sku_levels |-> [SKU001 |-> 100, SKU002 |-> 75, SKU003 |-> 50],
     orders |->
        <<[order_id |-> "ORD001",
           items |-> <<[sku |-> "SKU001", quantity |-> 30],
                       [sku |-> "SKU002", quantity |-> 20]>>,
           customer_id |-> "CUST001",
           shipping_address |-> "New York, NY",
           priority |-> "Standard"],
          [order_id |-> "ORD002",
           items |-> <<[sku |-> "SKU002", quantity |-> 50]>>,
           customer_id |-> "CUST002",
           shipping_address |-> "Los Angeles, CA",
           priority |-> "Express"]>>,
     suppliers |->
        [SUP001 |->
            [name |-> "Primary Supplier",
             lead_time_days |-> 5,
             items |-> [SKU001 |-> [unit_cost |-> 10, min_order |-> 50],
                        SKU002 |-> [unit_cost |-> 15, min_order |-> 30]]],
         SUP002 |->
            [name |-> "Secondary Supplier",
             lead_time_days |-> 7,
             items |-> [SKU002 |-> [unit_cost |-> 16, min_order |-> 25],
                        SKU003 |-> [unit_cost |-> 20, min_order |-> 40]]]],
     processing_capacity |-> 200,
     shipping_capacity |-> 150]

\* Context.create_context(config): a deep copy of the configured values
create_context(config) ==
    [inventory |-> config.sku_levels,
     orders |-> config.orders,
     suppliers |-> config.suppliers,
     warehouse_capacity |-> [processing |-> config.processing_capacity,
                             shipping |-> config.shipping_capacity]]

DefaultContext == create_context(DefaultConfig)

\* ------------------------------------------------- business functions
\* BusinessFunctions.get_function_mapping: the registered names
FunctionMapping ==
    {"check_inventory", "get_pending_orders", "allocate_inventory",
     "list_suppliers", "get_supplier_catalog", "create_purchase_order",
     "check_processing_capacity", "schedule_processing", "notify_customer",
     "instructions_complete"}

\* the parameters of each registered function (none has a default)
Params(name) ==
    CASE name = "check_inventory" -> {"sku"}
      [] name = "get_pending_orders" -> {}
      [] name = "allocate_inventory" -> {"order_id", "sku", "quantity"}
      [] name = "list_suppliers" -> {}
      [] name = "get_supplier_catalog" -> {"supplier_id"}
      [] name = "create_purchase_order" -> {"supplier_id", "sku", "quantity"}
      [] name = "check_processing_capacity" -> {"time_frame"}
      [] name = "schedule_processing" -> {"order_id", "priority"}
      [] name = "notify_customer" -> {"customer_id", "order_id", "message"}
      [] name = "instructions_complete" -> {}

\* Keyword arguments: `given` is the set of names passed, the other fields
\* carry their values (unused ones hold "" / 0).
KwArgs(given, order_id, sku, quantity) ==
    [given |-> given, order_id |-> order_id, sku |-> sku, quantity |-> quantity]

NoArgs == KwArgs({}, "", "", 0)

\* dict.get(sku, 0) on the inventory
InventoryGet(ctx, sku) ==
    IF sku \in DOMAIN ctx.inventory THEN ctx.inventory[sku] ELSE 0

\* A call f(**kw) raises TypeError when the keywords do not match f's
\* parameters (one missing or one unexpected).
BindFails(name, kw) == kw.given # Params(name)

\* allocate_inventory raises KeyError at `inventory[sku] -= quantity` when
\* the SKU is absent and the guard passed (0 >= quantity).
AllocateRaises(ctx, kw) ==
    /\ kw.sku \notin DOMAIN ctx.inventory
    /\ 0 >= kw.quantity

\* mutant: the lookup is made with setdefault and leaves the key behind
check_inventory_setdefault(ctx, kw) ==
    [ctx |-> [ctx EXCEPT !.inventory = (kw.sku :> InventoryGet(ctx, kw.sku)) @@ @],
     result |-> [sku |-> kw.sku, quantity |-> InventoryGet(ctx, kw.sku)]]

\* functions.py lines 10-16
check_inventory(ctx, kw) ==
    [ctx |-> ctx,
     result |-> [sku |-> kw.sku, quantity |-> InventoryGet(ctx, kw.sku)]]

\* mutant: the stock is reduced although it is insufficient
allocate_inventory_partial(ctx, kw) ==
    LET available == InventoryGet(ctx, kw.sku) IN
    IF available >= kw.quantity
    THEN [ctx |-> [ctx EXCEPT !.inventory[kw.sku] = @ - kw.quantity],
          result |-> [order_id |-> kw.order_id, allocated |-> kw.quantity]]
    ELSE [ctx |-> [ctx EXCEPT !.inventory[kw.sku] = 0],
          result |-> [order_id |-> kw.order_id, allocated |-> 0,
                      error |-> "Insufficient inventory"]]

allocate_inventory(ctx, kw) ==
    LET available == InventoryGet(ctx, kw.sku) IN
    IF available >= kw.quantity
    THEN [ctx |-> [ctx EXCEPT !.inventory[kw.sku] = @ - kw.quantity],
          result |-> [order_id |-> kw.order_id, allocated |-> kw.quantity]]
    ELSE [ctx |-> ctx,
          result |-> [order_id |-> kw.order_id, allocated |-> 0,
                      error |-> "Insufficient inventory"]]

instructions_complete(ctx, kw) ==
    [ctx |-> ctx, result |-> [status |-> "Instructions complete"]]

\* function_to_call(**function_args) raises
Raises(ctx, name, kw) ==
    \/ BindFails(name, kw)
    \/ name = "allocate_inventory" /\ AllocateRaises(ctx, kw)

\* function_to_call(**function_args), when it does not raise
Invoke(ctx, name, kw) ==
    CASE name = "check_inventory" -> check_inventory(ctx, kw)
      [] name = "allocate_inventory" -> allocate_inventory(ctx, kw)
      [] name = "instructions_complete" -> instructions_complete(ctx, kw)

\* ------------------------------------------------------ model service
\* tool_call.function.arguments as the service sends them: JSON text
RawAllocate == "{\"order_id\": \"ORD001\", \"sku\": \"SKU001\", \"quantity\": 60}"
RawEmpty == "{}"
RawTruncated == "{\"order_id\": \"ORD001\", \"sku\": "

\* json.loads raises JSONDecodeError on text that is not JSON
JsonDecodeError(raw) == raw \notin {RawAllocate, RawEmpty}

\* json.loads on well-formed text
json_loads(raw) ==
    CASE raw = RawAllocate ->
             KwArgs({"order_id", "sku", "quantity"}, "ORD001", "SKU001", 60)
      [] raw = RawEmpty -> NoArgs

\* json.dumps of a function result: JSON text, kept as the tagged value
json_dumps(value) == [json |-> value]

ToolCall(name, arguments) == [name |-> name, arguments |-> arguments]

AllocateCall == ToolCall("allocate_inventory", RawAllocate)
CompleteCall == ToolCall("instructions_complete", RawEmpty)
SentinelCall == ToolCall("processing_complete", RawEmpty)
UnknownCall == ToolCall("ship_order", RawEmpty)
MalformedCall == ToolCall("allocate_inventory", RawTruncated)
MismatchCall == ToolCall("check_inventory", RawEmpty)

\* the tool calls a free model may return
Calls == {AllocateCall, CompleteCall, SentinelCall, UnknownCall,
          MalformedCall, MismatchCall}
\* the tool calls a scripted model returns
ScriptCalls == {AllocateCall, SentinelCall, UnknownCall}

SeqsUpTo(S, n) == UNION {[1..k -> S] : k \in 0..n}

\* a response of the service; ok = FALSE is a failed request (timeout, auth,
\* rate limit), raised by client.chat.completions.create
Response(calls) == [ok |-> TRUE, content |-> "assistant text", tool_calls |-> calls]
TransportFailure == [ok |-> FALSE, content |-> "", tool_calls |-> <<>>]

Responses == {Response(c) : c \in SeqsUpTo(Calls, MaxCalls)} \cup {TransportFailure}
ScriptResponses == {Response(c) : c \in SeqsUpTo(ScriptCalls, MaxCalls)}

FreeClient == [scripted |-> FALSE, script |-> <<>>]
ScriptedClient(script) == [scripted |-> TRUE, script |-> script]

\* what the service answers to the n-th execution request of the run
ClientResponses(c, n) ==
    IF c.scripted
    THEN IF n <= Len(c.script) THEN {c.script[n]} ELSE {}
    ELSE Responses

\* the service stamps every tool call with an identifier
StampIds(calls, n) ==
    [i \in 1..Len(calls) |->
        [id |-> <<n, i>>, name |-> calls[i].name, arguments |-> calls[i].arguments]]

\* --------------------------------------------------------------- plans
PlannerModel == "o1-mini"

\* plans.py is imported when the program starts: the clock reads ImportTime
ImportTime == 0

\* datetime.isoformat(): the text of a clock reading
isoformat(t) == "2024-01-01T00:00:0" \o ToString(t)

\* plans.py line 18: the default of the dataclass field is the value of
\* datetime.now().isoformat() when the class statement runs
CreatedAtDefault == isoformat(ImportTime)

\* Plan(scenario=..., plan_text=..., model_used=...): created_at not given
Plan(scenario, plan_text, model_used) ==
    [scenario |-> scenario, plan_text |-> plan_text, model_used |-> model_used,
     created_at |-> CreatedAtDefault]

NoPlan == Plan("", "", "")
StoredPlan == Plan("scenario", "stored plan", PlannerModel)

\* a plan text with characters that JSON escapes
QuotedText == "1. Check \"SKU001\"\n2. Done"

\* json.dump of a str: the text between the quotes of the JSON string
JsonEscape(text) ==
    CASE text = QuotedText -> "1. Check \\\"SKU001\\\"\\n2. Done"
      [] OTHER -> text

\* mutant: the escapes are left in the loaded text
JsonUnescapeRaw(text) == text

\* json.load of a JSON string: the escapes become the characters again
JsonUnescape(text) ==
    CASE text = "1. Check \\\"SKU001\\\"\\n2. Done" -> "1. Check \"SKU001\"\n2. Done"
      [] OTHER -> text

\* the fields of the dataclass, in the order of self.__dict__
PlanFields == <<"scenario", "plan_text", "model_used", "created_at">>

\* json.dump(self.__dict__, f, indent=2): one "key": "string" member per field
json_dump(p) ==
    [i \in 1..Len(PlanFields) |->
        [key |-> PlanFields[i], value |-> [quoted |-> JsonEscape(p[PlanFields[i]])]]]

\* json.load(f): the members as a dict
json_load(text) ==
    [k \in {text[i].key : i \in 1..Len(text)} |->
        JsonUnescape(text[CHOOSE i \in 1..Len(text) : text[i].key = k].value.quoted)]

\* cls(**data)
FromDict(data) ==
    [scenario |-> data.scenario, plan_text |-> data.plan_text,
     model_used |-> data.model_used, created_at |-> data.created_at]

\* f"plan_{timestamp}.json", the name save() makes up when it is given none
TimestampName == "plan_timestamp.json"

\* Path("run_results/plans") / filename: pathlib drops a "." component
PlanPath(filename) ==
    CASE filename = "./basic_plan.json" -> "run_results/plans/basic_plan.json"
      [] OTHER -> "run_results/plans/" \o filename

\* mutant: the plan is not written
save_skipped(fs, p, filename) == fs

\* Plan.save(filename): open(path, 'w') replaces what the file held
save(fs, p, filename) ==
    {f \in fs : f.path # PlanPath(filename)}
        \cup {[path |-> PlanPath(filename), text |-> json_dump(p)]}

\* open(path) finds the file
Exists(fs, filename) == \E f \in fs : f.path = PlanPath(filename)

\* Plan.load(filename), when the file exists
load(fs, filename) ==
    FromDict(json_load((CHOOSE f \in fs : f.path = PlanPath(filename)).text))

\* -------------------------------------------------------------- events
StatusEvent(text) == [type |-> "status", message |-> text]
PlanEvent(p) == [type |-> "plan", content |-> p.plan_text]
ContextEvent(ctx) == [type |-> "context", message |-> json_dumps(ctx)]
CallEvent(name, args) == [type |-> "function_call", function |-> name, args |-> args]
ResponseEvent(name, response) ==
    [type |-> "function_response", function |-> name, response |-> response]

\* config.py lines 25-32: EXECUTOR_PROMPT.format(plan=...), the text as its
\* literal parts around the interpolated plan
ExecutorPrompt(plan_text) ==
    <<"You are a policy execution assistant ... PLAN:", plan_text, "">>

\* executor.py lines 40-43
SystemMessage(p) == [role |-> "system", content |-> ExecutorPrompt(p.plan_text)]
AssistantMessage(content) == [role |-> "assistant", content |-> content]
\* mutant: every tool message carries the identifier of the turn's first call
ToolMessageFirstId(call, response) ==
    [role |-> "tool", tool_call_id |-> <<call.id[1], 1>>, name |-> call.name,
     content |-> json_dumps(response)]

ToolMessage(call, response) ==
    [role |-> "tool", tool_call_id |-> call.id, name |-> call.name,
     content |-> json_dumps(response)]

\* ------------------------------------------------------- observability
\* '-' * 80
Rule == "--------------------------------------------------------------------------------"

\* m.get('content'), None when the key is absent
GetContent(message) ==
    IF "content" \in DOMAIN message THEN message.content ELSE ""

\* mutant: the formatter numbers its blocks by the lines already in the log
format_message_numbered(message_type, message) ==
    <<"\n[", [str |-> Len(output)], "] ", [str |-> message]>>

\* MessageFormatter.format_message: the text of an f-string is the sequence of
\* its literal parts and of the values it interpolates; an event type without
\* a formatter of its own falls to 'default'
format_message(message_type, message) ==
    CASE message_type = "status" -> <<"\n[Status] ", message.message, "\n">>
      [] message_type = "plan" ->
             <<"\n[Plan]\n", Rule, "\n", message.content, "\n", Rule>>
      [] message_type = "assistant" ->
             <<"\n[Assistant]\n", Rule, "\n", message.content, "\n", Rule>>
      [] message_type = "tool_call" ->
             <<"\n[Function Call] ", message.function_name,
               "\nArguments: ", message.arguments>>
      [] message_type = "tool_response" ->
             <<"\n[Function Response] ", message.function_name,
               "\nResult: ", message.response>>
      [] message_type = "context" ->
             <<"\n[Context]\n", Rule, "\n", message.message, "\n", Rule>>
      [] OTHER ->
             IF GetContent(message) # "" THEN <<"\n", GetContent(message)>> ELSE <<>>

\* message.get('type', '')
TypeOf(message) == IF "type" \in DOMAIN message THEN message.type ELSE ""

\* OutputManager.write: the formatted text and a newline go to the file
write(file, message) ==
    Append(file, format_message(TypeOf(message), message) \o <<"\n">>)

RECURSIVE WriteAll(_, _)
WriteAll(file, events) ==
    IF events = <<>> THEN file
    ELSE WriteAll(write(file, Head(events)), Tail(events))

\* utils.append_message, once per event: the event joins the list and its
\* text joins the log
append_message(events) ==
    /\ message_list' = message_list \o events
    /\ output' = WriteAll(output, events)

\* ------------------------------------------------------------ the loop
\* PolicyExecutor.__init__: nothing requested, nothing logged
LoopIdle ==
    /\ pc = "idle"
    /\ plan = NoPlan
    /\ files = {}
    /\ messages = <<>>
    /\ message_list = <<>>
    /\ output = <<>>
    /\ returned = <<>>
    /\ tool_calls = <<>>
    /\ idx = 0
    /\ requests = 0
    /\ plan_requests = 0
    /\ failure = "none"

NoCall == [name |-> "none", kw |-> NoArgs]

FnIdle ==
    /\ fn_call = NoCall
    /\ fn_before = context
    /\ fn_result = [status |-> "none"]

NoFunc == [params |-> <<>>, doc |-> <<>>]

RegIdle ==
    /\ func = NoFunc
    /\ metadata = [extracted |-> FALSE]

NotLoaded == [name |-> "", at |-> 0, raised |-> "none", plan |-> NoPlan]

PlanIdle ==
    /\ saved = <<>>
    /\ loaded = NotLoaded

RunsIdle ==
    /\ heap = <<>>
    /\ executors = <<>>

ClockIdle ==
    /\ clock = ImportTime
    /\ generated = <<>>

NotGenerated == [generated |-> FALSE]

ToolsIdle ==
    /\ functions = <<>>
    /\ tools = NotGenerated
    /\ descriptions = NotGenerated

LoopInit ==
    /\ LoopIdle
    /\ context = DefaultContext
    /\ turn_context = context
    /\ FnIdle
    /\ RegIdle
    /\ PlanIdle
    /\ RunsIdle
    /\ ClockIdle
    /\ ToolsIdle

\* mutant: the context summary is put before the model as a user message
InitialTranscriptWithContext(p, ctx) ==
    <<SystemMessage(p), [role |-> "user", content |-> json_dumps(ctx)]>>

\* execute_plan lines 42-44: the transcript starts as the system message alone
InitialTranscript(p, ctx) == <<SystemMessage(p)>>

\* process_scenario lines 123-131 followed by execute_plan lines 38-49;
\* `events` are the events process_scenario logged before the plan
EnterExecutePlan(p, events) ==
    /\ plan' = p
    /\ messages' = InitialTranscript(p, context)
    /\ returned' = returned
    /\ append_message(events \o <<PlanEvent(p), StatusEvent("Executing plan..."),
                                  ContextEvent(context)>>)
    /\ pc' = "awaiting"

\* process_scenario(scenario, existing_plan), up to its first model request
ProcessScenario ==
    /\ pc = "idle"
    /\ \/ /\ append_message(<<StatusEvent("Generating new plan...")>>)
          /\ pc' = "planning"
          /\ UNCHANGED <<plan, messages, returned>>
       \/ EnterExecutePlan(StoredPlan,
              <<StatusEvent("Using existing plan generated by o1-mini")>>)
    /\ UNCHANGED <<client, context, files, tool_calls, idx, requests, plan_requests,
                   failure, turn_context, fnVars, regVars, planVars, runVars, clockVars, toolVars>>

\* PlanGenerator.generate_plan answered, plan.save(), then as above
GeneratePlan ==
    /\ pc = "planning"
    /\ plan_requests' = plan_requests + 1
    /\ LET p == Plan("scenario", "generated plan", PlannerModel) IN
         /\ files' = save(files, p, TimestampName)
         /\ EnterExecutePlan(p, <<>>)
    /\ UNCHANGED <<client, context, tool_calls, idx, requests, failure, turn_context,
                   fnVars, regVars, planVars, runVars, clockVars, toolVars>>

\* the planning request raises: nothing catches it
GeneratePlanFails ==
    /\ pc = "planning"
    /\ plan_requests' = plan_requests + 1
    /\ pc' = "failed"
    /\ failure' = "APIError"
    /\ UNCHANGED <<client, context, plan, files, messages, message_list, output,
                   returned, tool_calls, idx, requests, turn_context, fnVars, regVars, planVars, runVars, clockVars, toolVars>>

\* mutant: execute_plan hands back a list of its own that nothing was logged to
ReturnValueFresh(list) == <<>>

\* lines 69 and 101: return self.message_list
ReturnValue(list) == list

\* mutant: process_scenario returns without its closing status event
ReturnSilently ==
    /\ pc' = "returned"
    /\ returned' = ReturnValue(message_list)
    /\ UNCHANGED <<message_list, output>>

\* execute_plan returns; process_scenario logs the last status
Return ==
    /\ pc' = "returned"
    /\ returned' = ReturnValue(message_list)
    /\ append_message(<<StatusEvent("Processing complete.")>>)

\* the exception `kind` leaves execute_plan and process_scenario: neither has
\* a try block and OutputManager.__exit__ does not suppress it
Propagate(kind) ==
    /\ pc' = "failed"
    /\ failure' = kind
    /\ returned' = returned

\* mutant: the failed request is swallowed and the loop asks again
RequestFailsRetried ==
    /\ pc' = "awaiting"
    /\ failure' = failure
    /\ returned' = returned

\* client.chat.completions.create raises in execute_plan
RequestFails == Propagate("APIError")

\* mutant: the prototype's `continue` on a response without tool calls
OnNoToolCallsContinue ==
    /\ pc' = "awaiting"
    /\ UNCHANGED <<message_list, output, returned>>

\* `else: break` and the return after the loop
OnNoToolCalls == Return

\* mutant: the loop gives up after its first turn
LoopConditionCapped == requests < 1

\* line 51: while True
LoopCondition == TRUE

\* one pass of the while loop up to the for loop: lines 51-63 and 97-101
Request ==
    /\ pc = "awaiting"
    /\ requests < MaxTurns
    /\ IF ~LoopCondition
       THEN /\ Return
            /\ UNCHANGED <<requests, messages, tool_calls, idx, failure, turn_context>>
       ELSE
       \E r \in ClientResponses(client, requests + 1) :
         /\ requests' = requests + 1
         /\ IF ~r.ok
            THEN /\ RequestFails
                 /\ UNCHANGED <<messages, message_list, output, tool_calls, idx,
                                turn_context>>
            ELSE /\ messages' = Append(messages, AssistantMessage(r.content))
                 /\ tool_calls' = StampIds(r.tool_calls, requests + 1)
                 /\ failure' = failure
                 /\ IF r.tool_calls = <<>>
                    THEN /\ OnNoToolCalls
                         /\ UNCHANGED <<idx, turn_context>>
                    ELSE /\ idx' = 1
                         /\ turn_context' = context
                         /\ pc' = "dispatching"
                         /\ UNCHANGED <<message_list, output, returned>>
    /\ UNCHANGED <<client, context, plan, files, plan_requests, fnVars, regVars, planVars, runVars, clockVars, toolVars>>

\* mutant: the name the planner prompt uses is taken for the sentinel
IsSentinelByPrompt(name) == name = "instructions_complete"

\* line 68: the name that ends the loop
IsSentinel(name) == name = "processing_complete"

\* mutant: the calls of a turn are taken last to first
CurrentCallReversed == tool_calls[Len(tool_calls) + 1 - idx]

\* line 64: the loop takes the calls in the order returned
CurrentCall == tool_calls[idx]

\* one iteration of `for tool_call in response_message.tool_calls`, lines 64-96
Dispatch ==
    /\ pc = "dispatching"
    /\ LET call == CurrentCall
           args == json_loads(call.arguments)
           out == Invoke(context, call.name, args)
       IN
       IF IsSentinel(call.name)
       THEN /\ Return
            /\ UNCHANGED <<context, messages, idx, failure>>
       ELSE IF JsonDecodeError(call.arguments)
       THEN /\ Propagate("JSONDecodeError")
            /\ UNCHANGED <<context, messages, message_list, output, idx>>
       ELSE IF call.name \notin FunctionMapping
       THEN /\ Propagate("KeyError")
            /\ append_message(<<CallEvent(call.name, args)>>)
            /\ UNCHANGED <<context, messages, idx>>
       ELSE IF Raises(context, call.name, args)
       THEN /\ Propagate("TypeError")
            /\ append_message(<<CallEvent(call.name, args)>>)
            /\ UNCHANGED <<context, messages, idx>>
       ELSE /\ context' = out.ctx
            /\ append_message(<<CallEvent(call.name, args),
                                ResponseEvent(call.name, out.result)>>)
            /\ messages' = Append(messages, ToolMessage(call, out.result))
            /\ idx' = idx + 1
            /\ pc' = IF idx = Len(tool_calls) THEN "awaiting" ELSE "dispatching"
            /\ failure' = failure
            /\ returned' = returned
    /\ UNCHANGED <<client, plan, files, tool_calls, requests, plan_requests,
                   turn_context, fnVars, regVars, planVars, runVars, clockVars, toolVars>>

Next ==
    \/ ProcessScenario
    \/ GeneratePlan
    \/ GeneratePlanFails
    \/ Request
    \/ Dispatch

Init == LoopInit /\ client = FreeClient

Spec == Init /\ [][Next]_vars

Scripts == [1..MaxTurns -> ScriptResponses]

ScriptedInit == LoopInit /\ client \in {ScriptedClient(s) : s \in Scripts}

ScriptedSpec == ScriptedInit /\ [][Next]_vars

\* ------------------------- process_scenario again on the same executor
\* the process_scenario calls made so far on the executor: each logs one
\* opening status event
Runs ==
    Len(SelectSeq(message_list,
                  LAMBDA e : /\ e.type = "status"
                             /\ e.message \in {"Generating new plan...",
                                   "Using existing plan generated by " \o PlannerModel}))

\* process_scenario lines 103-131 and execute_plan lines 38-49 on an executor
\* whose earlier call returned: a new OutputManager opens a new log file, the
\* transcript is a new list, and self.message_list and self.context are the
\* objects made in __init__
ProcessScenarioAgain ==
    /\ pc = "returned"
    /\ Runs < MaxRuns
    /\ requests' = 0
    /\ tool_calls' = <<>>
    /\ idx' = 0
    /\ \/ LET events == <<StatusEvent("Generating new plan...")>> IN
          /\ message_list' = message_list \o events
          /\ output' = WriteAll(<<>>, events)
          /\ pc' = "planning"
          /\ UNCHANGED <<plan, messages>>
       \/ LET events == <<StatusEvent("Using existing plan generated by o1-mini"),
                          PlanEvent(StoredPlan), StatusEvent("Executing plan..."),
                          ContextEvent(context)>> IN
          /\ message_list' = message_list \o events
          /\ output' = WriteAll(<<>>, events)
          /\ plan' = StoredPlan
          /\ messages' = InitialTranscript(StoredPlan, context)
          /\ pc' = "awaiting"
    /\ UNCHANGED <<client, context, files, returned, plan_requests, failure,
                   turn_context, fnVars, regVars, planVars, runVars, clockVars, toolVars>>

RepeatNext == Next \/ ProcessScenarioAgain

RepeatSpec == ScriptedInit /\ [][RepeatNext]_vars

\* ------------------------------------- business functions, directly
DefaultStock == DefaultConfig.sku_levels["SKU001"]
Stocks == (0..MaxStock) \cup {DefaultStock}
Quantities == (-1..(MaxStock + 1)) \cup {30, 200}

FnCall(name, order_id, sku, quantity) ==
    [name |-> name, kw |-> KwArgs(Params(name), order_id, sku, quantity)]

FnCalls ==
    {FnCall("allocate_inventory", "ORD001", sku, q) :
        sku \in {"SKU001", "SKU999"}, q \in Quantities}
    \cup {FnCall("check_inventory", "", sku, 0) : sku \in {"SKU001", "SKU999"}}
    \cup {FnCall("instructions_complete", "", "", 0)}

FnInit ==
    /\ LoopIdle
    /\ client = FreeClient
    /\ context \in {create_context([DefaultConfig EXCEPT !.sku_levels["SKU001"] = level]) :
                        level \in Stocks}
    /\ turn_context = context
    /\ FnIdle
    /\ RegIdle
    /\ PlanIdle
    /\ RunsIdle
    /\ ClockIdle
    /\ ToolsIdle

\* one call of a registered function on the business state; stock levels are
\* explored up to DefaultStock
ApplyFunction ==
    \E call \in FnCalls :
       /\ fn_call' = call
       /\ fn_before' = context
       /\ IF Raises(context, call.name, call.kw)
          THEN /\ fn_result' = [raised |-> "KeyError"]
               /\ context' = context
          ELSE LET out == Invoke(context, call.name, call.kw) IN
               /\ \A s \in DOMAIN out.ctx.inventory : out.ctx.inventory[s] <= DefaultStock
               /\ fn_result' = out.result
               /\ context' = out.ctx
       /\ UNCHANGED <<loopVars, regVars, planVars, runVars, clockVars, toolVars>>

FnNext == ApplyFunction

FnSpec == FnInit /\ [][FnNext]_vars

\* ------------------------------------------------------- the registry
\* the recognised annotations, an unrecognised one (typing.Dict) and none
Annotations == {"str", "int", "float", "bool", "dict", "list", "Dict", "empty"}

JsonTypes == {"string", "integer", "number", "boolean", "object", "array"}

\* FunctionRegistry.get_param_type
get_param_type(param) ==
    IF param.annotation = "empty"
    THEN [type |-> "string"]
    ELSE CASE param.annotation = "str" -> [type |-> "string"]
           [] param.annotation = "int" -> [type |-> "integer"]
           [] param.annotation = "float" -> [type |-> "number"]
           [] param.annotation = "bool" -> [type |-> "boolean"]
           [] param.annotation = "dict" -> [type |-> "object"]
           [] param.annotation = "list" -> [type |-> "array"]
           [] OTHER -> [type |-> "string"]

\* mutant: every parameter is listed as required
IsRequiredAlways(param) == TRUE

\* line 40: param.default == inspect.Parameter.empty
IsRequired(param) == ~param.has_default

\* a documentation line: free text, `:param <name>: <text>`,
\* `:enum <name>: <values>`, or a line that contains `:enum:` itself
DocLine(kind, name, text) == [kind |-> kind, name |-> name, text |-> text]

\* the first line of doc that contains f":param {name}:", <<>> if none
ParamLines(doc, name) ==
    SelectSeq(doc, LAMBDA line : line.kind = "param" /\ line.name = name)

EnumLines(doc, name) ==
    SelectSeq(doc, LAMBDA line : line.kind = "enum" /\ line.name = name)

\* line 54: ":enum:" in doc
HasEnumMarker(doc) == \E i \in 1..Len(doc) : doc[i].kind = "enum_marker"

\* f"The {name.replace('_', ' ')}."
Humanized(name) ==
    CASE name = "sku" -> "The sku."
      [] name = "quantity" -> "The quantity."
      [] name = "order_id" -> "The order id."
      [] name = "priority" -> "The priority."
      [] name = "supplier_id" -> "The supplier id."
      [] name = "time_frame" -> "The time frame."
      [] name = "customer_id" -> "The customer id."
      [] name = "message" -> "The message."

\* text.strip().split(',') with every value stripped
SplitValues(text) ==
    CASE text = "SKU001,SKU002,SKU003" -> <<"SKU001", "SKU002", "SKU003">>
      [] text = "today,tomorrow,next_week" -> <<"today", "tomorrow", "next_week">>
      [] text = "Standard,Express,Rush" -> <<"Standard", "Express", "Rush">>

\* lines 43-51: the description of a parameter
ParamDescription(doc, name) ==
    LET found == ParamLines(doc, name)
        param_desc == IF found = <<>> THEN "" ELSE found[1].text
    IN IF param_desc # "" THEN param_desc ELSE Humanized(name)

\* lines 39-58: the schema of one parameter
ParamSchema(doc, param) ==
    LET base == [type |-> get_param_type(param).type,
                 description |-> ParamDescription(doc, param.name)]
    IN IF HasEnumMarker(doc) /\ EnumLines(doc, param.name) # <<>>
       THEN [type |-> base.type, description |-> base.description,
             enum |-> SplitValues(EnumLines(doc, param.name)[1].text)]
       ELSE base

\* the parameters the loop of lines 35-58 visits
Visited(f) == SelectSeq(f.params, LAMBDA param : param.name # "self")

RECURSIVE RequiredOf(_)
RequiredOf(params) ==
    IF params = <<>> THEN <<>>
    ELSE (IF IsRequired(Head(params)) THEN <<Head(params).name>> ELSE <<>>)
            \o RequiredOf(Tail(params))

\* FunctionRegistry.extract_function_metadata
extract_function_metadata(f) ==
    LET visited == Visited(f)
        names == {visited[i].name : i \in 1..Len(visited)}
        byName(n) == CHOOSE i \in 1..Len(visited) : visited[i].name = n
    IN [extracted |-> TRUE,
        description |-> IF f.doc = <<>> THEN "" ELSE f.doc[1].text,
        parameters |->
            [type |-> "object",
             properties |-> [n \in names |-> ParamSchema(f.doc, visited[byName(n)])],
             required |-> RequiredOf(visited),
             additionalProperties |-> FALSE]]

\* the name of the i-th parameter of the callables explored
ParamNames == <<"sku", "quantity", "order_id", "priority">>

Parameter(name, annotation, has_default) ==
    [name |-> name, annotation |-> annotation, has_default |-> has_default]

ParamKinds == Annotations \X BOOLEAN

\* signatures of up to MaxParams parameters, each with any annotation, with or
\* without a default
Signatures ==
    {[i \in 1..Len(kinds) |-> Parameter(ParamNames[i], kinds[i][1], kinds[i][2])] :
        kinds \in SeqsUpTo(ParamKinds, MaxParams)}

\* an unbound method shows its receiver as first parameter
Receiver == Parameter("self", "empty", FALSE)

Docs ==
    {<<>>,
     <<DocLine("text", "", "Check current inventory level for a product.")>>,
     <<DocLine("text", "", "Check current inventory level for a product."),
       DocLine("param", "sku", "The stock keeping unit identifier"),
       DocLine("enum", "sku", "SKU001,SKU002,SKU003")>>,
     <<DocLine("enum_marker", "", "Values follow the :enum: lines."),
       DocLine("param", "sku", "The stock keeping unit identifier"),
       DocLine("enum", "sku", "SKU001,SKU002,SKU003")>>}

StrParam(name) == Parameter(name, "str", FALSE)
IntParam(name) == Parameter(name, "int", FALSE)

\* the bound methods of get_function_mapping(), as inspect.signature and
\* inspect.getdoc show them
Registered ==
    [check_inventory |->
        [params |-> <<StrParam("sku")>>,
         doc |-> <<DocLine("text", "", "Check current inventory level for a product."),
                   DocLine("param", "sku", "The stock keeping unit identifier"),
                   DocLine("enum", "sku", "SKU001,SKU002,SKU003")>>],
     get_pending_orders |->
        [params |-> <<>>,
         doc |-> <<DocLine("text", "", "Get list of pending orders.")>>],
     allocate_inventory |->
        [params |-> <<StrParam("order_id"), StrParam("sku"), IntParam("quantity")>>,
         doc |-> <<DocLine("text", "", "Allocate inventory for an order."),
                   DocLine("param", "order_id", "The order identifier"),
                   DocLine("param", "sku", "The stock keeping unit identifier"),
                   DocLine("param", "quantity", "The quantity to allocate")>>],
     list_suppliers |->
        [params |-> <<>>,
         doc |-> <<DocLine("text", "", "Get list of available suppliers.")>>],
     get_supplier_catalog |->
        [params |-> <<StrParam("supplier_id")>>,
         doc |-> <<DocLine("text", "", "Get supplier's available items and pricing."),
                   DocLine("param", "supplier_id", "The supplier identifier")>>],
     create_purchase_order |->
        [params |-> <<StrParam("supplier_id"), StrParam("sku"), IntParam("quantity")>>,
         doc |-> <<DocLine("text", "", "Create a purchase order for items."),
                   DocLine("param", "supplier_id", "The supplier identifier"),
                   DocLine("param", "sku", "The stock keeping unit to order"),
                   DocLine("param", "quantity", "The quantity to order")>>],
     check_processing_capacity |->
        [params |-> <<StrParam("time_frame")>>,
         doc |-> <<DocLine("text", "", "Check available order processing capacity."),
                   DocLine("param", "time_frame", "The time frame to check"),
                   DocLine("enum", "time_frame", "today,tomorrow,next_week")>>],
     schedule_processing |->
        [params |-> <<StrParam("order_id"), StrParam("priority")>>,
         doc |-> <<DocLine("text", "", "Schedule order processing."),
                   DocLine("param", "order_id", "The order identifier"),
                   DocLine("param", "priority", "The processing priority level"),
                   DocLine("enum", "priority", "Standard,Express,Rush")>>],
     notify_customer |->
        [params |-> <<StrParam("customer_id"), StrParam("order_id"), StrParam("message")>>,
         doc |-> <<DocLine("text", "", "Send notification to customer."),
                   DocLine("param", "customer_id", "The customer identifier"),
                   DocLine("param", "order_id", "The order identifier"),
                   DocLine("param", "message", "The message to send")>>],
     instructions_complete |->
        [params |-> <<>>,
         doc |-> <<DocLine("text", "", "Indicate that the instructions are complete.")>>]]

\* the callables explored: the registered ones, and every signature of up to
\* MaxParams parameters, documented or not, bound or not
Funcs ==
    {Registered[name] : name \in DOMAIN Registered}
    \cup {[params |-> ps, doc |-> d] : ps \in Signatures, d \in Docs}
    \cup {[params |-> <<Receiver>> \o ps, doc |-> <<>>] : ps \in Signatures}

RegInit ==
    /\ LoopIdle
    /\ client = FreeClient
    /\ context = DefaultContext
    /\ turn_context = context
    /\ FnIdle
    /\ func \in Funcs
    /\ metadata = [extracted |-> FALSE]
    /\ PlanIdle
    /\ RunsIdle
    /\ ClockIdle
    /\ ToolsIdle

\* generate_tools_list calls extract_function_metadata on a registered callable
Extract ==
    /\ ~metadata.extracted
    /\ metadata' = extract_function_metadata(func)
    /\ UNCHANGED <<func, loopVars, context, fnVars, planVars, runVars, clockVars, toolVars>>

RegNext == Extract

RegSpec == RegInit /\ [][RegNext]_vars

\* ------------------------------------------------------ the plan files
PlanTexts == {"generated plan", QuotedText}
ScenarioNames == {"basic", "low_inventory"}
Plans == {Plan(sc, text, PlannerModel) : sc \in ScenarioNames, text \in PlanTexts}

\* the names main.py saves under, and another spelling of the first
Filenames == {"basic_plan.json", "low_inventory_plan.json", "./basic_plan.json"}

PlanInit == LoopInit /\ client = FreeClient

\* plan.save(filename)
SavePlan ==
    /\ Len(saved) < MaxSaves
    /\ \E p \in Plans, n \in Filenames :
          /\ files' = save(files, p, n)
          /\ saved' = Append(saved, <<n, p>>)
    /\ UNCHANGED <<pc, client, plan, messages, message_list, output, tool_calls, idx,
                   requests, plan_requests, failure, turn_context, context, loaded,
                   returned, fnVars, regVars, runVars, clockVars, toolVars>>

\* Plan.load(filename): the plan, or FileNotFoundError from open()
LoadPlan ==
    /\ \E n \in Filenames :
          loaded' = IF Exists(files, n)
                    THEN [name |-> n, at |-> Len(saved), raised |-> "none",
                          plan |-> load(files, n)]
                    ELSE [name |-> n, at |-> Len(saved),
                          raised |-> "FileNotFoundError", plan |-> NoPlan]
    /\ UNCHANGED <<loopVars, context, saved, fnVars, regVars, runVars, clockVars,
                   toolVars>>

PlanNext == SavePlan \/ LoadPlan

PlanSpec == PlanInit /\ [][PlanNext]_vars

\* ------------------------------------------- executors and their states
\* Python objects are shared by reference: `heap` holds the mutable objects,
\* a reference names an address, and a reference with view = TRUE is a dict
\* whose inventory, orders and suppliers are the objects of the ContextConfig
\* at that address.
Ref(addr, view) == [addr |-> addr, view |-> view]

\* Context._create_context_from_config: a dict built around the
\* configuration's own containers
create_context_from_config(config_addr) == Ref(config_addr, TRUE)

\* the business state a reference shows
ReadContext(h, ref) ==
    IF ref.view THEN create_context(h[ref.addr]) ELSE h[ref.addr]

\* a business state stored through a reference: through a view, the containers
\* written are the configuration's
WriteContext(h, ref, ctx) ==
    IF ref.view
    THEN [h EXCEPT ![ref.addr] = [@ EXCEPT !.sku_levels = ctx.inventory,
                                           !.orders = ctx.orders,
                                           !.suppliers = ctx.suppliers]]
    ELSE [h EXCEPT ![ref.addr] = ctx]

\* mutant: the dict is handed out as it is, without the copy
get_context_shared(h, ref) == [heap |-> h, ref |-> ref]

\* Context.get_context: copy.deepcopy(self.context), a new object
get_context(h, ref) ==
    [heap |-> Append(h, ReadContext(h, ref)), ref |-> Ref(Len(h) + 1, FALSE)]

\* address 0 stands for context_config = None
NoConfig == 0

\* PolicyExecutor.__init__ -> Context.create_context(config): `config or
\* ContextConfig()` builds a new default configuration when none is given
NewPolicyExecutor(h, config) ==
    LET h1 == IF config = NoConfig THEN Append(h, DefaultConfig) ELSE h
        addr == IF config = NoConfig THEN Len(h) + 1 ELSE config
        made == get_context(h1, create_context_from_config(addr))
    IN [heap |-> made.heap, executor |-> [config |-> addr, context |-> made.ref]]

\* main.get_test_contexts: the low_inventory configuration
LowInventoryConfig ==
    [DefaultConfig EXCEPT !.sku_levels = [SKU001 |-> 10, SKU002 |-> 5, SKU003 |-> 2]]

RunConfigs == {DefaultConfig, LowInventoryConfig}

\* the ContextConfig object the caller holds and passes to every executor
SharedConfig == 1

RunCalls ==
    {FnCall("allocate_inventory", "ORD001", "SKU001", q) : q \in {10, 60}}
    \cup {FnCall("check_inventory", "", "SKU001", 0)}

RunsInit ==
    /\ LoopIdle
    /\ client = FreeClient
    /\ context = DefaultContext
    /\ turn_context = context
    /\ FnIdle
    /\ RegIdle
    /\ PlanIdle
    /\ heap \in {<<config>> : config \in RunConfigs}
    /\ executors = <<>>
    /\ ClockIdle
    /\ ToolsIdle

\* executor = PolicyExecutor(api_key, context_config=...)
NewExecutor ==
    /\ Len(executors) < MaxExecutors
    /\ \E config \in {NoConfig, SharedConfig} :
          LET new == NewPolicyExecutor(heap, config) IN
          /\ heap' = new.heap
          /\ executors' = Append(executors, new.executor)
    /\ UNCHANGED <<loopVars, context, fnVars, regVars, planVars, clockVars, toolVars>>

\* a tool call of the run of executor e: function_to_call(**function_args)
\* acts on that executor's self.context
RunToolCall ==
    /\ \E e \in 1..Len(executors), call \in RunCalls :
          LET ref == executors[e].context
              out == Invoke(ReadContext(heap, ref), call.name, call.kw)
          IN /\ ~Raises(ReadContext(heap, ref), call.name, call.kw)
             /\ heap' = WriteContext(heap, ref, out.ctx)
    /\ UNCHANGED <<loopVars, context, fnVars, regVars, planVars, executors,
                   clockVars, toolVars>>

RunsNext == NewExecutor \/ RunToolCall

RunsSpec == RunsInit /\ [][RunsNext]_vars

\* ------------------------------------------------ the log, directly
\* events of the types the formatter knows, shaped as its formatters read
\* them, the events execute_plan logs for a tool call, an event of an unknown
\* type with content and an event without a type
FmtEvents ==
    {StatusEvent("Executing plan..."),
     StatusEvent("Processing complete."),
     PlanEvent(StoredPlan),
     [type |-> "assistant", content |-> "assistant text"],
     [type |-> "tool_call", function_name |-> "allocate_inventory",
      arguments |-> RawAllocate],
     [type |-> "tool_response", function_name |-> "allocate_inventory",
      response |-> [order_id |-> "ORD001", allocated |-> 60]],
     ContextEvent(DefaultContext),
     CallEvent("allocate_inventory", json_loads(RawAllocate)),
     [type |-> "note", content |-> "a note"],
     [content |-> "no type"]}

FmtInit == LoopInit /\ client = FreeClient

\* append_message(message, output, message_list)
AppendMessage ==
    /\ Len(message_list) < MaxWrites
    /\ \E message \in FmtEvents : append_message(<<message>>)
    /\ UNCHANGED <<pc, client, plan, files, messages, returned, tool_calls, idx,
                   requests, plan_requests, failure, turn_context, context, fnVars, regVars,
                   planVars, runVars, clockVars, toolVars>>

FmtNext == AppendMessage

FmtSpec == FmtInit /\ [][FmtNext]_vars

\* ------------------------------------------- plans and the clock
\* PlanGenerator.generate_plan lines 65-69, given the planner's answer
generate_plan(scenario, answer) == Plan(scenario, answer, PlannerModel)

ClockInit == LoopInit /\ client = FreeClient

\* time passes
Tick ==
    /\ clock < MaxClock
    /\ clock' = clock + 1
    /\ UNCHANGED <<generated, loopVars, context, fnVars, regVars, planVars, runVars,
                   toolVars>>

\* one call of generate_plan: the planning request takes `wait` ticks, then
\* the plan is constructed
CallGeneratePlan ==
    /\ Len(generated) < MaxPlans
    /\ \E sc \in ScenarioNames, answer \in PlanTexts, wait \in 0..1 :
          /\ clock + wait <= MaxClock
          /\ clock' = clock + wait
          /\ generated' = Append(generated,
                 [called_at |-> clock, made_at |-> clock + wait,
                  plan |-> generate_plan(sc, answer)])
    /\ UNCHANGED <<loopVars, context, fnVars, regVars, planVars, runVars, toolVars>>

ClockNext == Tick \/ CallGeneratePlan

ClockSpec == ClockInit /\ [][ClockNext]_vars

\* ------------------------------- purchase orders and scheduling
\* dict.get(key, default) and dict[key] = value on a dict whose keys vary
DictGet(d, key, default) == IF key \in DOMAIN d THEN d[key] ELSE default
DictSet(d, key, value) == (key :> value) @@ d
EmptyDict == <<>>

\* the record and the answer of lines 62-71
PlaceOrder(ctx, supplier_id, sku, quantity) ==
    LET supplier == ctx.suppliers[supplier_id]
        po_number == "PO_" \o supplier_id \o "_" \o sku
        orders == DictGet(ctx, "purchase_orders", EmptyDict)
        order == [supplier_id |-> supplier_id, sku |-> sku, quantity |-> quantity,
                  expected_delivery |-> supplier.lead_time_days,
                  lead_time_days |-> supplier.lead_time_days]
    IN [ctx |-> DictSet(ctx, "purchase_orders", DictSet(orders, po_number, order)),
        result |-> [po_number |-> po_number,
                    expected_delivery |-> supplier.lead_time_days]]

\* mutant: the minimum order quantity is not tested
create_purchase_order_any_quantity(ctx, supplier_id, sku, quantity) ==
    IF supplier_id \notin DOMAIN ctx.suppliers
    THEN [ctx |-> ctx, result |-> [error |-> "Supplier " \o supplier_id \o " not found"]]
    ELSE IF sku \notin DOMAIN ctx.suppliers[supplier_id].items
    THEN [ctx |-> ctx,
          result |-> [error |-> "SKU " \o sku \o " not available from supplier "
                                   \o supplier_id]]
    ELSE PlaceOrder(ctx, supplier_id, sku, quantity)

\* functions.py lines 45-71
create_purchase_order(ctx, supplier_id, sku, quantity) ==
    IF supplier_id \notin DOMAIN ctx.suppliers
    THEN [ctx |-> ctx, result |-> [error |-> "Supplier " \o supplier_id \o " not found"]]
    ELSE LET supplier == ctx.suppliers[supplier_id] IN
    IF sku \notin DOMAIN supplier.items
    THEN [ctx |-> ctx,
          result |-> [error |-> "SKU " \o sku \o " not available from supplier "
                                   \o supplier_id]]
    ELSE IF quantity < supplier.items[sku].min_order
    THEN [ctx |-> ctx,
          result |-> [error |-> "Quantity below minimum order of "
                                   \o ToString(supplier.items[sku].min_order)]]
    ELSE PlaceOrder(ctx, supplier_id, sku, quantity)

\* functions.py lines 81-96, called when the clock reads `now`
schedule_processing(ctx, order_id, priority, now) ==
    IF ctx.warehouse_capacity.processing > 0
    THEN LET used == [ctx EXCEPT !.warehouse_capacity.processing = @ - 1]
             scheduled == DictGet(used, "scheduled_processing", EmptyDict)
             entry == [priority |-> priority, status |-> "Scheduled",
                       scheduled_at |-> isoformat(now)]
         IN [ctx |-> DictSet(used, "scheduled_processing",
                             DictSet(scheduled, order_id, entry)),
             result |-> [order_id |-> order_id, status |-> "Scheduled",
                         priority |-> priority]]
    ELSE [ctx |-> ctx, result |-> [error |-> "No processing capacity available"]]

\* functions.py lines 18-20
get_pending_orders(ctx) == [ctx |-> ctx, result |-> ctx.orders]

\* the keys of context['suppliers'] in the order the configuration gives them
SupplierIds == <<"SUP001", "SUP002">>

\* functions.py lines 34-36
list_suppliers(ctx) ==
    [ctx |-> ctx,
     result |-> [suppliers |-> SelectSeq(SupplierIds,
                                         LAMBDA id : id \in DOMAIN ctx.suppliers)]]

\* functions.py lines 38-43
get_supplier_catalog(ctx, supplier_id) ==
    [ctx |-> ctx,
     result |-> IF supplier_id \in DOMAIN ctx.suppliers
                THEN ctx.suppliers[supplier_id]
                ELSE [error |-> "Supplier " \o supplier_id \o " not found"]]

\* functions.py lines 73-79
check_processing_capacity(ctx, time_frame) ==
    [ctx |-> ctx,
     result |-> [time_frame |-> time_frame,
                 available_capacity |-> ctx.warehouse_capacity.processing]]

\* the calls of the query functions explored
QueryCalls ==
    {[name |-> "check_inventory", kw |-> [sku |-> sku]] : sku \in {"SKU001", "SKU999"}}
    \cup {[name |-> "get_pending_orders", kw |-> NoArgs]}
    \cup {[name |-> "list_suppliers", kw |-> NoArgs]}
    \cup {[name |-> "get_supplier_catalog", kw |-> [supplier_id |-> id]] :
             id \in {"SUP001", "SUP999"}}
    \cup {[name |-> "check_processing_capacity", kw |-> [time_frame |-> t]] :
             t \in {"today", "next_month"}}
    \cup {[name |-> "instructions_complete", kw |-> NoArgs]}

\* function_mapping[name](**kw) for a query function
InvokeQuery(ctx, call) ==
    CASE call.name = "check_inventory" ->
             check_inventory(ctx, KwArgs({"sku"}, "", call.kw.sku, 0))
      [] call.name = "get_pending_orders" -> get_pending_orders(ctx)
      [] call.name = "list_suppliers" -> list_suppliers(ctx)
      [] call.name = "get_supplier_catalog" ->
             get_supplier_catalog(ctx, call.kw.supplier_id)
      [] call.name = "check_processing_capacity" ->
             check_processing_capacity(ctx, call.kw.time_frame)
      [] call.name = "instructions_complete" -> instructions_complete(ctx, NoArgs)

OpsInit ==
    /\ LoopIdle
    /\ client = FreeClient
    /\ context \in {create_context([DefaultConfig EXCEPT !.processing_capacity = c]) :
                        c \in 0..MaxCapacity}
    /\ turn_context = context
    /\ FnIdle
    /\ RegIdle
    /\ PlanIdle
    /\ RunsIdle
    /\ ClockIdle
    /\ ToolsIdle

\* a tool call create_purchase_order(supplier_id, sku, quantity)
CreatePurchaseOrder ==
    /\ \E supplier_id \in {"SUP001", "SUP002", "SUP999"}, sku \in {"SKU001", "SKU002"},
          quantity \in {10, 50, 60} :
          LET out == create_purchase_order(context, supplier_id, sku, quantity) IN
          /\ fn_call' = [name |-> "create_purchase_order",
                         kw |-> [supplier_id |-> supplier_id, sku |-> sku,
                                 quantity |-> quantity]]
          /\ fn_before' = context
          /\ fn_result' = out.result
          /\ context' = out.ctx
    /\ UNCHANGED <<loopVars, regVars, planVars, runVars, clockVars, toolVars>>

\* a tool call schedule_processing(order_id, priority)
ScheduleProcessing ==
    /\ \E order_id \in {"ORD001", "ORD002"}, priority \in {"Standard", "Express"} :
          LET out == schedule_processing(context, order_id, priority, clock) IN
          /\ fn_call' = [name |-> "schedule_processing",
                         kw |-> [order_id |-> order_id, priority |-> priority]]
          /\ fn_before' = context
          /\ fn_result' = out.result
          /\ context' = out.ctx
    /\ UNCHANGED <<loopVars, regVars, planVars, runVars, clockVars, toolVars>>

\* a tool call of one of the query functions
Query ==
    /\ \E call \in QueryCalls :
          LET out == InvokeQuery(context, call) IN
          /\ fn_call' = call
          /\ fn_before' = context
          /\ fn_result' = out.result
          /\ context' = out.ctx
    /\ UNCHANGED <<loopVars, regVars, planVars, runVars, clockVars, toolVars>>

OpsNext == CreatePurchaseOrder \/ ScheduleProcessing \/ Query

OpsSpec == OpsInit /\ [][OpsNext]_vars

\* ----------------------------------- the two outputs of the registry
\* a function mapping is a dict: its items in insertion order, as pairs
\* [name, func]
\* generate_tools_list lines 73-82: one ToolSpec per item, {"name": name,
\* **metadata}
ToolSpec(name, f) ==
    LET md == extract_function_metadata(f) IN
    [type |-> "function",
     function |-> [name |-> name, description |-> md.description,
                   parameters |-> md.parameters]]

generate_tools_list(fns) == [i \in 1..Len(fns) |-> ToolSpec(fns[i].name, fns[i].func)]

\* line 92: f"    - {name}(): {first_line}"
DescriptionLine(name, f) == <<"    - ", name, "(): ", f.doc[1].text>>

\* '\n'.join(lines)
RECURSIVE JoinLines(_)
JoinLines(lines) ==
    IF lines = <<>> THEN <<>>
    ELSE IF Len(lines) = 1 THEN lines[1]
    ELSE lines[1] \o <<"\n">> \o JoinLines(Tail(lines))

\* lines 88-93: the lines of the callables that have a docstring
RECURSIVE DescriptionLines(_)
DescriptionLines(fns) ==
    IF fns = <<>> THEN <<>>
    ELSE (IF fns[1].func.doc # <<>>
          THEN <<DescriptionLine(fns[1].name, fns[1].func)>>
          ELSE <<>>)
         \o DescriptionLines(Tail(fns))

\* FunctionRegistry.generate_functions_description
generate_functions_description(fns) == JoinLines(DescriptionLines(fns))

\* a callable without a docstring: inspect.getdoc gives None
Undocumented == [params |-> <<StrParam("sku")>>, doc |-> <<>>]

ToolFuncs == {Registered.check_inventory, Registered.get_pending_orders, Undocumented}

ToolNames == {"check_inventory", "get_pending_orders", "lookup"}

KeysOf(fns) == {fns[i].name : i \in 1..Len(fns)}

ToolsInit == LoopInit /\ client = FreeClient

\* the mapping is built: one more item, under a new key
RegisterFunction ==
    /\ ~tools.generated
    /\ ~descriptions.generated
    /\ Len(functions) < MaxFunctions
    /\ \E name \in ToolNames \ KeysOf(functions), f \in ToolFuncs :
          functions' = Append(functions, [name |-> name, func |-> f])
    /\ UNCHANGED <<tools, descriptions, loopVars, context, fnVars, regVars, planVars,
                   runVars, clockVars>>

\* PolicyExecutor.__init__: self.tools = generate_tools_list(function_mapping)
GenerateToolsList ==
    /\ ~tools.generated
    /\ tools' = [generated |-> TRUE, list |-> generate_tools_list(functions)]
    /\ UNCHANGED <<functions, descriptions, loopVars, context, fnVars, regVars,
                   planVars, runVars, clockVars>>

\* generate_plan: generate_functions_description(function_mapping)
GenerateFunctionsDescription ==
    /\ ~descriptions.generated
    /\ descriptions' = [generated |-> TRUE,
                        text |-> generate_functions_description(functions)]
    /\ UNCHANGED <<functions, tools, loopVars, context, fnVars, regVars, planVars,
                   runVars, clockVars>>

ToolsNext ==
    \/ RegisterFunction
    \/ GenerateToolsList
    \/ GenerateFunctionsDescription

ToolsSpec == ToolsInit /\ [][ToolsNext]_vars

\* --------------------------------- the prototype's loop (prototype/)
\* lines 410-421: the system prompt with the plan text put in
ProtoSystemMessage(plan_text) ==
    [role |-> "system", content |-> ExecutorPrompt(plan_text)]

\* line 436: response.choices[0].message.to_dict(), the whole assistant message
ProtoAssistantMessage(content, calls) ==
    IF calls = <<>>
    THEN [role |-> "assistant", content |-> content]
    ELSE [role |-> "assistant", content |-> content, tool_calls |-> calls]

\* lines 423-426 and 452-455: the context summary under its heading
ProtoContextEvent(when, ctx) ==
    [type |-> "context",
     message |-> <<when \o " the plan is executed, here is the current context:\n",
                   json_dumps(ctx)>>]

AssistantEvent(content) == [type |-> "assistant", content |-> content]

\* lines 464-468
ToolCallEvent(name, arguments) ==
    [type |-> "tool_call", function_name |-> name, arguments |-> arguments]

\* lines 494-498
ToolResponseEvent(name, serialized) ==
    [type |-> "tool_response", function_name |-> name, response |-> serialized]

\* str(e) of the exception function_mapping[name](**input_arguments) raised
ExceptionText(name, kw) ==
    IF BindFails(name, kw)
    THEN name \o "() missing required positional arguments"
    ELSE "'" \o kw.sku \o "'"

\* lines 475-481: the result of the call, or an error payload in its place
ProtoResponse(ctx, name, kw) ==
    IF name \notin FunctionMapping
    THEN [ctx |-> ctx,
          result |-> [error |-> "Function '" \o name \o "' not implemented."]]
    ELSE IF Raises(ctx, name, kw)
    THEN [ctx |-> ctx, result |-> [error |-> ExceptionText(name, kw)]]
    ELSE Invoke(ctx, name, kw)

\* mutant: the tool message answers no call in particular
ProtoToolMessageNoId(call, serialized) ==
    [role |-> "tool", tool_call_id |-> <<0, 0>>, content |-> serialized]

\* lines 488-492
ProtoToolMessage(call, serialized) ==
    [role |-> "tool", tool_call_id |-> call.id, content |-> serialized]

\* the tool calls the model may return to the prototype
ProtoCalls == {AllocateCall, CompleteCall, UnknownCall, MalformedCall, MismatchCall}

ProtoResponses ==
    {Response(c) : c \in SeqsUpTo(ProtoCalls, MaxCalls)} \cup {TransportFailure}

\* the tool calls the model has returned so far in the run
Dispatches == Len(SelectSeq(messages, LAMBDA m : m.role = "assistant"
                                       /\ "tool_calls" \in DOMAIN m))

ProtoInit == LoopInit /\ client = FreeClient

\* process_scenario lines 359-366 with generate_plan answered, and
\* execute_plan lines 405-426
ProtoProcessScenario ==
    /\ pc = "idle"
    /\ \E answer \in {"generated plan"} :
          /\ plan' = Plan("scenario", answer, PlannerModel)
          /\ messages' = <<ProtoSystemMessage(answer)>>
          /\ append_message(<<StatusEvent("Generating plan..."),
                              [type |-> "plan", content |-> answer],
                              StatusEvent("Executing plan..."),
                              ProtoContextEvent("Before", context)>>)
    /\ pc' = "awaiting"
    /\ plan_requests' = plan_requests + 1
    /\ UNCHANGED <<client, context, files, returned, tool_calls, idx, requests, failure,
                   turn_context, fnVars, regVars, planVars, runVars, clockVars,
                   toolVars>>

\* lines 451-457: a call of the turn names instructions_complete
ProtoHasSentinel(calls) ==
    \E i \in 1..Len(calls) : calls[i].name = "instructions_complete"

\* one pass of `while True` up to the dispatching loop: lines 428-457
ProtoRequest ==
    /\ pc = "awaiting"
    /\ requests < MaxTurns
    /\ \E r \in ProtoResponses :
         /\ Dispatches + Len(r.tool_calls) <= MaxDispatches
         /\ requests' = requests + 1
         /\ IF ~r.ok
            THEN /\ Propagate("APIError")
                 /\ UNCHANGED <<messages, message_list, output, tool_calls, idx,
                                turn_context>>
            ELSE LET calls == StampIds(r.tool_calls, requests + 1)
                     transcript == Append(messages, ProtoAssistantMessage(r.content, calls))
                 IN
                 /\ messages' = transcript
                 /\ tool_calls' = calls
                 /\ failure' = failure
                 /\ IF calls = <<>>
                    THEN /\ pc' = "awaiting"
                         /\ append_message(<<AssistantEvent(r.content)>>)
                         /\ UNCHANGED <<idx, turn_context, returned>>
                    ELSE IF ProtoHasSentinel(calls)
                    THEN /\ pc' = "returned"
                         /\ returned' = transcript
                         /\ append_message(<<AssistantEvent(r.content),
                                             ProtoContextEvent("After", context),
                                             StatusEvent("Processing complete.")>>)
                         /\ UNCHANGED <<idx, turn_context>>
                    ELSE /\ pc' = "dispatching"
                         /\ idx' = 1
                         /\ turn_context' = context
                         /\ append_message(<<AssistantEvent(r.content)>>)
                         /\ returned' = returned
    /\ UNCHANGED <<client, context, plan, files, plan_requests, fnVars, regVars,
                   planVars, runVars, clockVars, toolVars>>

\* one iteration of the dispatching loop: lines 459-498
ProtoDispatch ==
    /\ pc = "dispatching"
    /\ LET call == tool_calls[idx]
           out == ProtoResponse(context, call.name, json_loads(call.arguments))
           serialized == json_dumps(out.result)
       IN
       IF JsonDecodeError(call.arguments)
       THEN /\ append_message(<<ToolCallEvent(call.name, call.arguments)>>)
            /\ UNCHANGED <<context, messages>>
       ELSE /\ context' = out.ctx
            /\ messages' = Append(messages, ProtoToolMessage(call, serialized))
            /\ append_message(<<ToolCallEvent(call.name, call.arguments),
                                ToolResponseEvent(call.name, serialized)>>)
    /\ idx' = idx + 1
    /\ pc' = IF idx = Len(tool_calls) THEN "awaiting" ELSE "dispatching"
    /\ UNCHANGED <<client, plan, files, returned, tool_calls, requests, plan_requests,
                   failure, turn_context, fnVars, regVars, planVars, runVars,
                   clockVars, toolVars>>

ProtoNext ==
    \/ ProtoProcessScenario
    \/ ProtoRequest
    \/ ProtoDispatch

ProtoSpec == ProtoInit /\ [][ProtoNext]_vars

\* ===================================================== claims: the loop
Ended == pc \in {"returned", "failed"}

HasSentinel(calls) == \E i \in 1..Len(calls) : calls[i].name = "processing_complete"

\* the turn of the first scripted response that names the sentinel, 0 if none
FirstSentinelTurn ==
    LET turns == {k \in 1..Len(client.script) : HasSentinel(client.script[k].tool_calls)}
    IN IF turns = {} THEN 0 ELSE CHOOSE k \in turns : \A j \in turns : k <= j

\* the sentinel call left no call event, no response event and no tool message
NoSentinelTrace ==
    /\ \A i \in 1..Len(message_list) :
          message_list[i].type \in {"function_call", "function_response"}
             => message_list[i].function # "processing_complete"
    /\ \A i \in 1..Len(messages) :
          messages[i].role = "tool" => messages[i].name # "processing_complete"

LastResponseEmpty ==
    /\ messages # <<>>
    /\ messages[Len(messages)].role = "assistant"
    /\ tool_calls = <<>>

\* C2: a response without tool calls is terminal: the run has returned, and no
\* model request is issued and no tool dispatched after it.
C2_NoToolCallsTerminal ==
    /\ [](LastResponseEmpty => pc = "returned")
    /\ [][LastResponseEmpty =>
             /\ requests' = requests
             /\ context' = context
             /\ messages' = messages]_vars

\* a run that returned on the empty response of its second turn
C2_Witness ==
    /\ LastResponseEmpty
    /\ pc = "returned"
    /\ requests = 2
    /\ \E i \in 1..Len(messages) : messages[i].role = "tool"

\* c1..cn applied one after the other, each to the state the previous one left
RECURSIVE ApplyCalls(_, _)
ApplyCalls(ctx, calls) ==
    IF calls = <<>>
    THEN [ctx |-> ctx, results |-> <<>>]
    ELSE LET first == Invoke(ctx, Head(calls).name, json_loads(Head(calls).arguments))
             rest == ApplyCalls(first.ctx, Tail(calls))
         IN [ctx |-> rest.ctx, results |-> <<first.result>> \o rest.results]

\* the calls of the current turn that have been executed
Executed == SubSeq(tool_calls, 1, idx - 1)

\* C3: at every point of a turn the business state and the tool messages of the
\* turn are those of applying the executed calls sequentially, in the order
\* returned, to the state in which the response arrived; the next model request
\* is issued only after the last call of the turn.
C3_SequentialSameTurn ==
    /\ [](tool_calls # <<>> =>
            LET seq == ApplyCalls(turn_context, Executed)
                n == Len(Executed)
                base == Len(messages) - n
            IN /\ base >= 1
               /\ messages[base].role = "assistant"
               /\ \A i \in 1..n :
                     /\ messages[base + i].role = "tool"
                     /\ messages[base + i].tool_call_id = tool_calls[i].id
                     /\ messages[base + i] = ToolMessage(tool_calls[i], seq.results[i])
               /\ context = seq.ctx)
    /\ [][requests' = requests + 1 =>
             (tool_calls = <<>> \/ idx = Len(tool_calls) + 1)]_vars

\* two allocations in one turn: the first succeeded and left too little for
\* the second, which reported the shortage
C3_Witness ==
    /\ pc = "awaiting"
    /\ Len(tool_calls) = 2
    /\ idx = 3
    /\ context.inventory["SKU001"] = 40
    /\ messages[Len(messages) - 1].content.json.allocated = 60
    /\ messages[Len(messages)].content.json.allocated = 0

\* the call of the current loop iteration is about to be dispatched
AtCall == pc = "dispatching" /\ ~IsSentinel(CurrentCall.name)

\* the step appends an {error: ...} tool message for the current call and the
\* loop goes on
RecoveredLocally ==
    /\ pc' \in {"dispatching", "awaiting"}
    /\ Len(messages') = Len(messages) + 1
    /\ messages'[Len(messages')].role = "tool"
    /\ messages'[Len(messages')].tool_call_id = CurrentCall.id
    /\ "error" \in DOMAIN messages'[Len(messages')].content.json

\* C4: a call naming an unregistered function gets a structured error result as
\* its tool message and the loop goes on.
C4_UnknownFunctionRecovered ==
    [][(AtCall /\ ~JsonDecodeError(CurrentCall.arguments)
              /\ CurrentCall.name \notin FunctionMapping)
          => RecoveredLocally]_vars

\* C5: a call with malformed arguments is not invoked, gets an error payload as
\* its tool result, and the loop goes on.
C5_MalformedArgumentsRecovered ==
    [][(AtCall /\ JsonDecodeError(CurrentCall.arguments))
          => (RecoveredLocally /\ context' = context)]_vars

\* C6: an exception raised by the dispatched function becomes an {error:
\* message} tool result and never ends the loop.
C6_FunctionExceptionRecovered ==
    [][(AtCall /\ ~JsonDecodeError(CurrentCall.arguments)
              /\ CurrentCall.name \in FunctionMapping
              /\ Raises(context, CurrentCall.name, json_loads(CurrentCall.arguments)))
          => RecoveredLocally]_vars

\* a model request was issued in this step and raised
ExecutionRequestFailed == requests' = requests + 1 /\ messages' = messages
PlanningRequestFailed == plan_requests' = plan_requests + 1 /\ plan' = plan

\* C7: a failed model request (planning or execution) propagates out of
\* process_scenario; it is not retried, and after it the run issues no model
\* request and dispatches no tool call.
C7_TransportFailureFatal ==
    /\ [][(ExecutionRequestFailed \/ PlanningRequestFailed)
             => (pc' = "failed" /\ failure' = "APIError")]_vars
    /\ [](failure = "APIError" => pc = "failed")
    /\ [][pc = "failed" =>
             /\ requests' = requests
             /\ plan_requests' = plan_requests
             /\ context' = context
             /\ messages' = messages]_vars

\* the execution request of the second turn failed after a tool call was done
C7_Witness ==
    /\ pc = "failed"
    /\ failure = "APIError"
    /\ requests = 2
    /\ context.inventory["SKU001"] = 40

\* C8: a call naming instructions_complete ends the loop in its turn and is
\* not executed: the loop never moves past it and logs no event for it.
C8_CompletionFunctionIsSentinel ==
    /\ \A i \in 1..Len(tool_calls) :
          tool_calls[i].name = "instructions_complete"
             => /\ idx <= i
                /\ (idx = i => pc \in {"dispatching", "returned"})
    /\ \A i \in 1..Len(message_list) :
          message_list[i].type \in {"function_call", "function_response"}
             => message_list[i].function # "instructions_complete"

\* C15: when a turn's response names the sentinel, none of that turn's tool
\* calls is executed, whatever the sentinel's position: the run returns with
\* the business state it had when the response arrived and no tool message
\* after the turn's assistant message.
C15_SentinelStopsWholeTurn ==
    (pc = "returned" /\ HasSentinel(tool_calls))
        => /\ context = turn_context
           /\ messages[Len(messages)].role = "assistant"

\* the tool messages of the transcript, in transcript order
ToolMessages == SelectSeq(messages, LAMBDA m : m.role = "tool")

\* the response events of the event list, in order
ResponseEvents == SelectSeq(message_list, LAMBDA e : e.type = "function_response")

\* identifier a was stamped before identifier b
IdBefore(a, b) == a[1] < b[1] \/ (a[1] = b[1] /\ a[2] < b[2])

\* C16: every executed tool call appends exactly one tool message with the
\* call's identifier and the JSON text of its result before the next call is
\* dispatched, and a call event immediately followed by a response event for
\* the same function; tool messages stand in dispatch order. (A call whose
\* function raised left its call event as the last event of a failed run.)
C16_OneToolMessagePerCall ==
    /\ [](/\ \A i \in 1..Len(ToolMessages), j \in 1..Len(ToolMessages) :
               i < j => IdBefore(ToolMessages[i].tool_call_id, ToolMessages[j].tool_call_id)
          /\ Len(ResponseEvents) = Len(ToolMessages)
          /\ \A k \in 1..Len(ToolMessages) :
               /\ ToolMessages[k].name = ResponseEvents[k].function
               /\ ToolMessages[k].content = json_dumps(ResponseEvents[k].response)
          /\ \A i \in 1..Len(message_list) :
               /\ message_list[i].type = "function_response"
                     => /\ i > 1
                        /\ message_list[i - 1].type = "function_call"
                        /\ message_list[i - 1].function = message_list[i].function
               /\ message_list[i].type = "function_call"
                     => IF i < Len(message_list)
                        THEN /\ message_list[i + 1].type = "function_response"
                             /\ message_list[i + 1].function = message_list[i].function
                        ELSE pc = "failed")
    /\ [][(pc = "dispatching" /\ idx' = idx + 1)
             => /\ Len(messages') = Len(messages) + 1
                /\ messages'[Len(messages')].role = "tool"
                /\ messages'[Len(messages')].tool_call_id = CurrentCall.id
                /\ messages'[Len(messages')].name = CurrentCall.name
                /\ Len(message_list') = Len(message_list) + 2
                /\ message_list'[Len(message_list') - 1].type = "function_call"
                /\ message_list'[Len(message_list') - 1].function = CurrentCall.name
                /\ message_list'[Len(message_list')].type = "function_response"
                /\ message_list'[Len(message_list')].function = CurrentCall.name
                /\ messages'[Len(messages')].content
                      = json_dumps(message_list'[Len(message_list')].response)]_vars
    /\ [][(pc = "dispatching" /\ messages' # messages) => idx' = idx + 1]_vars

\* both calls of a two-call turn were executed: two tool messages with the
\* calls' identifiers, in order, and call/response/call/response events
C16_Witness ==
    /\ pc = "awaiting"
    /\ Len(tool_calls) = 2
    /\ idx = 3
    /\ messages[Len(messages) - 1].role = "tool"
    /\ messages[Len(messages) - 1].tool_call_id = tool_calls[1].id
    /\ messages[Len(messages)].tool_call_id = tool_calls[2].id
    /\ message_list[Len(message_list) - 3].type = "function_call"
    /\ message_list[Len(message_list) - 2].type = "function_response"
    /\ message_list[Len(message_list) - 1].type = "function_call"
    /\ message_list[Len(message_list)].type = "function_response"

\* C17: every tool message of the transcript is preceded by an assistant
\* message that carries the tool-call request with the same identifier.
C17_AssistantKeepsToolCalls ==
    \A i \in 1..Len(messages) :
       messages[i].role = "tool"
          => \E j \in 1..(i - 1) :
                /\ messages[j].role = "assistant"
                /\ "tool_calls" \in DOMAIN messages[j]
                /\ \E k \in 1..Len(messages[j].tool_calls) :
                      messages[j].tool_calls[k].id = messages[i].tool_call_id

\* the response is a non-empty list of allocate_inventory calls: successful,
\* none the sentinel
OnlyAllocations(response) ==
    /\ response.tool_calls # <<>>
    /\ \A i \in 1..Len(response.tool_calls) : response.tool_calls[i] = AllocateCall

\* every response the scripted model has given so far is of that kind
AlwaysCallsTools ==
    /\ client.scripted
    /\ requests >= 1
    /\ \A k \in 1..requests : OnlyAllocations(client.script[k])

\* C18: the run returns only in a turn whose response carries no tool calls
\* or a call naming the sentinel, and there is no iteration ceiling: while the
\* model answers every turn with successful non-sentinel tool calls, the loop
\* has neither returned nor failed.
C18_NoIterationCeiling ==
    /\ pc = "returned"
          => \/ LastResponseEmpty
             \/ /\ idx \in 1..Len(tool_calls)
                /\ IsSentinel(tool_calls[idx].name)
    /\ AlwaysCallsTools => pc \in {"awaiting", "dispatching"}

\* every turn so far brought tool calls, all executed, and the loop is about
\* to ask the model again
C18_Witness ==
    /\ AlwaysCallsTools
    /\ requests = MaxTurns
    /\ pc = "awaiting"
    /\ idx = Len(tool_calls) + 1
    /\ Len(ToolMessages) >= MaxTurns

\* the event is a call event, a response event
IsCallEvent(e) == TypeOf(e) \in {"function_call", "tool_call"}
IsResponseEvent(e) == TypeOf(e) \in {"function_response", "tool_response"}

\* C19: every dispatched tool call is in the log as a block showing the
\* function name and its arguments, and every tool result as a block showing
\* the function name and the result: the events logged are of the types
\* tool_call and tool_response.
C19_ToolCallsLoggedAsBlocks ==
    /\ Len(output) = Len(message_list)
    /\ \A i \in 1..Len(message_list) :
          /\ IsCallEvent(message_list[i])
                => /\ message_list[i].type = "tool_call"
                   /\ Len(output[i]) = 5
                   /\ output[i][1] = "\n[Function Call] "
                   /\ output[i][2] = message_list[i].function_name
                   /\ output[i][4] = message_list[i].arguments
          /\ IsResponseEvent(message_list[i])
                => /\ message_list[i].type = "tool_response"
                   /\ Len(output[i]) = 5
                   /\ output[i][1] = "\n[Function Response] "
                   /\ output[i][2] = message_list[i].function_name
                   /\ output[i][4] = message_list[i].response

\* C20: on every turn the assistant's content is appended to the transcript
\* and an assistant event is logged: the event list holds one assistant event
\* per assistant message of the transcript.
C20_AssistantContentLogged ==
    LET said == {i \in 1..Len(messages) : messages[i].role = "assistant"}
        logged == {i \in 1..Len(message_list) : message_list[i].type = "assistant"}
    IN /\ Cardinality(said) = Cardinality(logged)
       /\ requests > 0 /\ pc # "failed" => said # {}

\* ================================== claims: the business functions
\* C9: allocate_inventory on a SKU with stock s: with q <= s the stock becomes
\* s - q and the call reports allocated q; with q > s it reports allocated 0
\* with the insufficiency error and the business state is unchanged.
C9_AllocateAllOrNothing ==
    (fn_call.name = "allocate_inventory" /\ fn_call.kw.sku \in DOMAIN fn_before.inventory)
        => LET s == fn_before.inventory[fn_call.kw.sku]
               q == fn_call.kw.quantity
           IN IF q <= s
              THEN /\ context.inventory[fn_call.kw.sku] = s - q
                   /\ context = [fn_before EXCEPT !.inventory[fn_call.kw.sku] = s - q]
                   /\ fn_result = [order_id |-> fn_call.kw.order_id, allocated |-> q]
              ELSE /\ context = fn_before
                   /\ fn_result.allocated = 0
                   /\ fn_result.error = "Insufficient inventory"

\* the spec's example: 70 left of 100, a request for 200 is refused and 70 stay
C9_Witness ==
    /\ fn_call.name = "allocate_inventory"
    /\ fn_call.kw.sku = "SKU001"
    /\ fn_call.kw.quantity = 200
    /\ fn_before.inventory["SKU001"] = 70
    /\ context.inventory["SKU001"] = 70
    /\ fn_result.allocated = 0

\* ============================================= claims: the registry
\* C10: the schema's required list names exactly the parameters without a
\* default, every required name is a key of properties, and every parameter
\* has a type among the six JSON types, string when it is unannotated.
C10_RequiredIffNoDefault ==
    metadata.extracted =>
        LET ps == Visited(func)
            required == metadata.parameters.required
            properties == metadata.parameters.properties
        IN /\ \A i \in 1..Len(ps) :
                 /\ (\E j \in 1..Len(required) : required[j] = ps[i].name)
                        <=> ~ps[i].has_default
                 /\ ps[i].name \in DOMAIN properties
                 /\ properties[ps[i].name].type \in JsonTypes
                 /\ ps[i].annotation = "empty" => properties[ps[i].name].type = "string"
           /\ \A j \in 1..Len(required) :
                 /\ required[j] \in DOMAIN properties
                 /\ \E i \in 1..Len(ps) : ps[i].name = required[j]

\* the metadata of a callable whose first parameter is required and
\* unannotated and whose second has a default
C10_Witness ==
    /\ metadata.extracted
    /\ Len(func.params) = 2
    /\ func.params[1].annotation = "empty"
    /\ ~func.params[1].has_default
    /\ func.params[2].has_default
    /\ metadata.parameters.required = <<func.params[1].name>>

\* C11: a parameter whose documentation has a line `:enum <name>: v1,v2,...`
\* gets an enum constraint equal to the listed values, split on commas and
\* trimmed; a parameter without such a line gets no enum.
C11_EnumFromDocLine ==
    metadata.extracted =>
        LET ps == Visited(func)
            properties == metadata.parameters.properties
        IN \A i \in 1..Len(ps) :
              LET lines == EnumLines(func.doc, ps[i].name)
                  schema == properties[ps[i].name]
              IN IF lines # <<>>
                 THEN /\ "enum" \in DOMAIN schema
                      /\ schema.enum = SplitValues(lines[1].text)
                 ELSE "enum" \notin DOMAIN schema

\* ============================================= claims: the plan files
\* the saves made before the last load
SavedBeforeLoad == SubSeq(saved, 1, loaded.at)

\* the loaded plan equals p in scenario, plan_text and model_used
LoadedEquals(p) ==
    /\ loaded.raised = "none"
    /\ loaded.plan.scenario = p.scenario
    /\ loaded.plan.plan_text = p.plan_text
    /\ loaded.plan.model_used = p.model_used

\* the position of the last save among `saves` that satisfies Same, 0 if none
LastSave(saves, Same(_)) ==
    LET hits == {i \in 1..Len(saves) : Same(saves[i][1])}
    IN IF hits = {} THEN 0 ELSE CHOOSE i \in hits : \A j \in hits : j <= i

StateOf(h, e) == ReadContext(h, executors[e].context)

\* the addresses of the configurations the executors were built from
ConfigAddrs == {SharedConfig} \cup {executors[e].config : e \in 1..Len(executors)}

\* C13: executors built from the same ContextConfig object, or from the
\* default configuration, own independent business states: each holds an object
\* of its own, a tool call changes the state of one executor only and never a
\* ContextConfig, and every executor starts from the configured values.
C13_IndependentContexts ==
    /\ [](\A e \in 1..Len(executors) :
            /\ ~executors[e].context.view
            /\ executors[e].context.addr \notin ConfigAddrs
            /\ \A d \in 1..Len(executors) :
                  d # e => executors[d].context.addr # executors[e].context.addr)
    /\ [][/\ \A a \in ConfigAddrs : heap'[a] = heap[a]
          /\ \A e \in 1..Len(executors), d \in 1..Len(executors) :
                (d # e /\ StateOf(heap', e) # StateOf(heap, e))
                    => StateOf(heap', d) = StateOf(heap, d)
          /\ Len(executors') = Len(executors) + 1 =>
                LET new == executors'[Len(executors')] IN
                /\ heap'[new.config] \in RunConfigs
                /\ ReadContext(heap', new.context) = create_context(heap'[new.config])]_vars

\* two executors built from the same ContextConfig object: the first has
\* allocated 60 of SKU001, the second and the configuration still show 100
C13_Witness ==
    /\ Len(executors) = 2
    /\ executors[1].config = SharedConfig
    /\ executors[2].config = SharedConfig
    /\ heap[SharedConfig] = DefaultConfig
    /\ StateOf(heap, 1).inventory["SKU001"] = 40
    /\ StateOf(heap, 2).inventory["SKU001"] = 100

\* ======================================================= claims: the log
\* the same event: the same type and the same fields
SameEvent(a, b) == TypeOf(a) = TypeOf(b) /\ a = b

ContextEvents(list) == SelectSeq(list, LAMBDA e : e.type = "context")

CallEvents(list) == SelectSeq(list, LAMBDA e : e.type = "function_call")

\* position of the k-th event of type t in the list
PositionOf(list, t, k) ==
    CHOOSE i \in 1..Len(list) :
        /\ list[i].type = t
        /\ Cardinality({j \in 1..i : list[j].type = t}) = k

\* C21: on every path on which execute_plan returns (the sentinel, or a
\* response without tool calls) the value returned is the whole list of events
\* logged so far: it holds the one context event of the run and, after it and
\* in logging order, the call event and the response event of every executed
\* tool call.
C21_ReturnsLoggedEvents ==
    pc = "returned" =>
       /\ message_list = Append(returned, StatusEvent("Processing complete."))
       /\ ContextEvents(returned) = <<ContextEvent(DefaultContext)>>
       /\ Len(CallEvents(returned)) = Len(ToolMessages)
       /\ \A k \in 1..Len(ToolMessages) :
             LET c == PositionOf(returned, "function_call", k) IN
             /\ PositionOf(returned, "context", 1) < c
             /\ returned[c].function = ToolMessages[k].name
             /\ returned[c + 1] =
                   ResponseEvent(ToolMessages[k].name, ToolMessages[k].content.json)

\* a run that executed two tool calls and then returned their events
C21_Witness ==
    /\ pc = "returned"
    /\ Len(ToolMessages) = 2
    /\ Len(returned) = 8
    /\ returned[4].type = "context"
    /\ returned[5].type = "function_call"
    /\ returned[8].type = "function_response"

\* C22: the transcript of the first request is the one system message built
\* from the plan's text; later messages are assistant and tool messages only,
\* and the context summary is logged as one event and is no transcript message.
C22_TranscriptStartsWithSystemMessage ==
    /\ (pc = "awaiting" /\ requests = 0)
          => messages = <<[role |-> "system",
                           content |-> ExecutorPrompt(plan.plan_text)]>>
    /\ messages # <<>>
          => /\ messages[1].role = "system"
             /\ messages[1].content[2] = plan.plan_text
             /\ \A i \in 2..Len(messages) : messages[i].role \in {"assistant", "tool"}
             /\ ContextEvents(message_list) = <<ContextEvent(DefaultContext)>>

\* execute_plan is about to send its first request under the stored plan
C22_Witness ==
    /\ pc = "awaiting"
    /\ requests = 0
    /\ plan = StoredPlan
    /\ Len(messages) = 1
    /\ messages[1].content[2] = StoredPlan.plan_text
    /\ message_list[Len(message_list)].type = "context"

\* ================================================ claims: plans in time
\* the clock reading a timestamp text stands for
ParseTime(text) == CHOOSE t \in 0..(MaxClock + 1) : isoformat(t) = text

\* C23: every plan made by generate_plan carries as created_at the time it
\* was made: not earlier than the moment generate_plan was called, and two
\* plans made at different clock times carry different created_at values.
C23_CreatedAtIsCreationTime ==
    /\ \A i \in 1..Len(generated) :
          ParseTime(generated[i].plan.created_at) >= generated[i].called_at
    /\ \A i \in 1..Len(generated), j \in 1..Len(generated) :
          generated[i].made_at # generated[j].made_at
             => generated[i].plan.created_at # generated[j].plan.created_at

\* ============================================ claims: the prototype's loop
\* C24: in the prototype a response without tool-call requests ends the loop:
\* execute_plan has returned and no further request is pending.
C24_PrototypeNoToolCallsTerminal == LastResponseEmpty => pc = "returned"

\* the tool messages of the transcript that answer the call `id`
AnswersTo(id) ==
    {k \in 1..Len(messages) : messages[k].role = "tool" /\ messages[k].tool_call_id = id}

\* the call names no registered function, or its arguments do not bind
FailsInDispatch(call) ==
    /\ ~JsonDecodeError(call.arguments)
    /\ \/ call.name \notin FunctionMapping
       \/ BindFails(call.name, json_loads(call.arguments))

\* C25: in the prototype a call that names an unregistered function, or whose
\* function raises, is not fatal: a tool message with the call's identifier and
\* an error payload as content is appended, the remaining calls of the turn
\* are dispatched in order, and the loop goes on to the next request.
C25_PrototypeCallErrorsNotFatal ==
    /\ [](/\ failure \in {"none", "APIError"}
          /\ pc \in {"dispatching", "awaiting"} =>
                \A i \in 1..Len(tool_calls) :
                   (i < idx /\ FailsInDispatch(tool_calls[i])) =>
                      /\ Cardinality(AnswersTo(tool_calls[i].id)) = 1
                      /\ \A k \in AnswersTo(tool_calls[i].id) :
                            /\ DOMAIN messages[k].content.json = {"error"}
                            /\ \A j \in 1..Len(tool_calls) :
                                  (i < j /\ j < idx) =>
                                     \A m \in AnswersTo(tool_calls[j].id) : k < m)
    /\ [][pc = "dispatching" =>
             /\ idx' = idx + 1
             /\ failure' = failure
             /\ pc' = IF idx = Len(tool_calls) THEN "awaiting" ELSE "dispatching"]_vars

\* a turn of an unregistered function and a call that raised, both answered
\* with error payloads in order, and the next request made
C25_Witness ==
    /\ requests = 2
    /\ Len(messages) >= 5
    /\ messages[3].role = "tool"
    /\ messages[3].tool_call_id = <<1, 1>>
    /\ messages[3].content = json_dumps([error |-> "Function 'ship_order' not implemented."])
    /\ messages[4].role = "tool"
    /\ messages[4].tool_call_id = <<1, 2>>
    /\ messages[4].content =
          json_dumps([error |-> "check_inventory() missing required positional arguments"])
    /\ messages[5].role = "assistant"

\* C26: in the prototype every tool-call request of a dispatched turn has
\* exactly one tool message with its identifier before the next model request
\* is sent, a call with malformed arguments included.
C26_PrototypeEveryCallAnswered ==
    (pc = "awaiting" /\ tool_calls # <<>>)
       => \A i \in 1..Len(tool_calls) : Cardinality(AnswersTo(tool_calls[i].id)) = 1

\* ====================================== claims: the registry's two outputs
\* the names a description text has a line for
DescribedNames(text) ==
    {text[i + 1] : i \in {j \in 1..Len(text) : text[j] = "    - " /\ j < Len(text)}}

OfferedNames(list) == {list[i].function.name : i \in 1..Len(list)}

\* C27: every registered callable, documented or not, is in both outputs of
\* the registry: the tools list has one ToolSpec per name, in the order of the
\* mapping and with an empty description for an undocumented callable, and the
\* description text has a line per name: the described names are the offered names.
C27_DescribedEqualsOffered ==
    (tools.generated /\ descriptions.generated) =>
       /\ Len(tools.list) = Len(functions)
       /\ \A i \in 1..Len(functions) :
             /\ tools.list[i].function.name = functions[i].name
             /\ functions[i].func.doc = <<>> => tools.list[i].function.description = ""
       /\ DescribedNames(descriptions.text) = OfferedNames(tools.list)

\* ================================================= claims: stock levels
\* C28: from non-negative stock, after any sequence of registered tool calls
\* with any integer arguments, the inventory of every SKU stays between 0 and
\* the level the calls started from, and so does the processing capacity.
\* (FnSpec keeps in turn_context the business state the calls started from.)
C28_StockWithinInitial ==
    /\ \A s \in DOMAIN context.inventory :
          /\ 0 <= context.inventory[s]
          /\ context.inventory[s] <= turn_context.inventory[s]
    /\ 0 <= context.warehouse_capacity.processing
    /\ context.warehouse_capacity.processing <= turn_context.warehouse_capacity.processing

\* =================================== claims: scheduling and purchase orders
ScheduledProcessing(ctx) == DictGet(ctx, "scheduled_processing", EmptyDict)
PurchaseOrders(ctx) == DictGet(ctx, "purchase_orders", EmptyDict)

\* C29: after any sequence of schedule_processing calls the capacity consumed
\* since the start equals the number of orders in scheduled_processing, and a
\* call made at capacity 0 answers an error and changes nothing.
\* (OpsSpec keeps in turn_context the business state the calls started from.)
C29_CapacityMatchesScheduled ==
    /\ turn_context.warehouse_capacity.processing - context.warehouse_capacity.processing
          = Cardinality(DOMAIN ScheduledProcessing(context))
    /\ (fn_call.name = "schedule_processing"
          /\ fn_before.warehouse_capacity.processing = 0)
          => /\ DOMAIN fn_result = {"error"}
             /\ context = fn_before

\* the latest call was create_purchase_order and it answered a po_number
CreatedOrder ==
    /\ fn_call.name = "create_purchase_order"
    /\ "po_number" \in DOMAIN fn_result

\* C30: a successful create_purchase_order call answers a po_number that no
\* earlier call answered and adds one record to purchase_orders: after n
\* successful calls purchase_orders holds n records.
C30_DistinctPurchaseOrders ==
    [][CreatedOrder' =>
          /\ fn_result'.po_number \notin DOMAIN PurchaseOrders(context)
          /\ Cardinality(DOMAIN PurchaseOrders(context'))
                = Cardinality(DOMAIN PurchaseOrders(context)) + 1]_vars

\* the supplier exists, offers the SKU and the quantity reaches its minimum
Orderable(ctx, supplier_id, sku, quantity) ==
    /\ supplier_id \in DOMAIN ctx.suppliers
    /\ sku \in DOMAIN ctx.suppliers[supplier_id].items
    /\ quantity >= ctx.suppliers[supplier_id].items[sku].min_order

\* C31: every record of purchase_orders names an existing supplier that
\* offers the record's SKU, with a quantity not below that supplier's minimum
\* for the SKU; a create_purchase_order call for an unknown supplier, an
\* unoffered SKU or a quantity below the minimum answers an error and leaves
\* the business state as it was.
C31_PurchaseOrdersAreOrderable ==
    /\ \A po \in DOMAIN PurchaseOrders(context) :
          LET order == PurchaseOrders(context)[po] IN
          Orderable(context, order.supplier_id, order.sku, order.quantity)
    /\ (fn_call.name = "create_purchase_order"
          /\ ~Orderable(fn_before, fn_call.kw.supplier_id, fn_call.kw.sku,
                        fn_call.kw.quantity))
          => /\ DOMAIN fn_result = {"error"}
             /\ context = fn_before

\* two orders on record and the latest call, below the minimum, rejected
C31_Witness ==
    /\ Cardinality(DOMAIN PurchaseOrders(context)) = 2
    /\ fn_call.name = "create_purchase_order"
    /\ fn_call.kw.supplier_id = "SUP001"
    /\ fn_call.kw.sku = "SKU001"
    /\ fn_call.kw.quantity = 10
    /\ fn_result = [error |-> "Quantity below minimum order of 50"]
    /\ context = fn_before

\* ============================================ claims: allocate_inventory
\* C32: allocate_inventory answers a result and never raises, for every SKU,
\* one absent from the inventory included, and every integer quantity, 0 and
\* negative values included; for an absent SKU it reports allocated 0 and leaves
\* the inventory as it was.
C32_AllocateNeverRaises ==
    fn_call.name = "allocate_inventory" =>
       /\ "raised" \notin DOMAIN fn_result
       /\ fn_call.kw.sku \notin DOMAIN fn_before.inventory
             => /\ fn_result.allocated = 0
                /\ context.inventory = fn_before.inventory

\* ============================================== claims: query functions
QueryNames ==
    {"check_inventory", "get_pending_orders", "list_suppliers", "get_supplier_catalog",
     "check_processing_capacity", "instructions_complete"}

\* C33: a call of a query function (check_inventory, get_pending_orders,
\* list_suppliers, get_supplier_catalog, check_processing_capacity,
\* instructions_complete) leaves the whole business state as it was, for an
\* unknown SKU or supplier id as well: every key and every value is kept and
\* no key is added.
C33_QueriesChangeNothing ==
    fn_call.name \in QueryNames =>
       /\ context = fn_before
       /\ DOMAIN context.inventory = DOMAIN fn_before.inventory
       /\ DOMAIN context.suppliers = DOMAIN fn_before.suppliers

\* a lookup of an unknown SKU after orders were placed and scheduled
C33_Witness ==
    /\ fn_call.name = "check_inventory"
    /\ fn_call.kw.sku = "SKU999"
    /\ fn_result = [sku |-> "SKU999", quantity |-> 0]
    /\ "SKU999" \notin DOMAIN context.inventory
    /\ DOMAIN PurchaseOrders(context) # {}
    /\ DOMAIN ScheduledProcessing(context) # {}
    /\ context = fn_before

\* ======================================== claims: one process_scenario call
OpeningEvents ==
    {StatusEvent("Generating new plan..."),
     StatusEvent("Using existing plan generated by " \o PlannerModel)}

ClosingEvent == StatusEvent("Processing complete.")

\* C34: the events of one process_scenario call stand in this order: a
\* status event (generating or reusing a plan), the plan event, the status
\* 'Executing plan...', the context event, then for each executed tool call its
\* call event directly followed by its response event, and last the status
\* 'Processing complete.', which is logged exactly when execute_plan returned.
C34_EventOrder ==
    LET n == Len(message_list) IN
    /\ n >= 1 => message_list[1] \in OpeningEvents
    /\ n >= 2 => /\ n >= 4
                 /\ message_list[2] = PlanEvent(plan)
                 /\ message_list[3] = StatusEvent("Executing plan...")
                 /\ message_list[4] = ContextEvent(DefaultContext)
    /\ \A i \in 5..n :
          /\ message_list[i].type \in {"function_call", "function_response", "status"}
          /\ message_list[i].type = "status"
                => i = n /\ message_list[i] = ClosingEvent
          /\ message_list[i].type = "function_response"
                => /\ message_list[i - 1].type = "function_call"
                   /\ message_list[i - 1].function = message_list[i].function
          /\ (message_list[i].type = "function_call" /\ i < n)
                => message_list[i + 1].type = "function_response"
    /\ Len(SelectSeq(message_list, LAMBDA e : e.type = "function_response"))
          = Len(ToolMessages)
    /\ pc = "returned" <=> (n >= 1 /\ message_list[n] = ClosingEvent)

\* a call that generated its plan, executed two tool calls and returned
C34_Witness ==
    /\ pc = "returned"
    /\ Len(message_list) = 9
    /\ message_list[1] = StatusEvent("Generating new plan...")
    /\ message_list[5].type = "function_call"
    /\ message_list[6].type = "function_response"
    /\ message_list[8].type = "function_response"
    /\ message_list[9] = ClosingEvent

\* the call was given an existing plan, no plan
GivenPlan == message_list # <<>> /\ message_list[1].message # "Generating new plan..."
WithoutPlan == message_list # <<>> /\ message_list[1].message = "Generating new plan..."

\* C36: process_scenario called with an existing plan sends no request to the
\* planning model and writes no plan file, and the system message of the
\* execution carries the given plan's text. Called without a plan it sends
\* exactly one planning request and, when that is answered, has saved the
\* generated plan before execute_plan builds its transcript and sends the first
\* execution request.
C36_PlanningOnlyWithoutPlan ==
    /\ GivenPlan
          => /\ plan_requests = 0
             /\ files = {}
             /\ plan = StoredPlan
             /\ messages[1].role = "system"
             /\ messages[1].content = ExecutorPrompt(StoredPlan.plan_text)
    /\ WithoutPlan
          => /\ plan_requests = (IF pc = "planning" THEN 0 ELSE 1)
             /\ messages # <<>>
                   => /\ Exists(files, TimestampName)
                      /\ load(files, TimestampName) = plan
                      /\ messages[1].content = ExecutorPrompt(plan.plan_text)
             /\ messages = <<>> => files = {} /\ requests = 0

\* a call without a plan: one planning request made, the plan on file, and
\* execute_plan about to send its first request
C36_Witness ==
    /\ WithoutPlan
    /\ plan_requests = 1
    /\ pc = "awaiting"
    /\ requests = 0
    /\ Exists(files, TimestampName)
    /\ load(files, TimestampName).plan_text = "generated plan"

\* ===================================== claims: calls on the same executor
\* process_scenario lines 133-140: `messages` is self.message_list itself, so
\* what the caller holds after the call is the list with the closing status
ProcessScenarioResult == message_list

\* the position of the opening status event of the latest call
CallStart ==
    CHOOSE i \in 1..Len(message_list) :
        /\ message_list[i] \in OpeningEvents
        /\ \A j \in (i + 1)..Len(message_list) : message_list[j] \notin OpeningEvents

\* C35: the list a process_scenario call returns holds the events logged
\* during that call and no others: no event of an earlier call on the same
\* executor is in it.
C35_ResultHoldsOnlyThisCall ==
    pc = "returned" =>
       ProcessScenarioResult = SubSeq(message_list, CallStart, Len(message_list))

====
